---- MODULE Spec2Model ----
(***************************************************************************)
(* Model of the Bedrock inference-profile management API (src/app):        *)
(* the /team-profile endpoint of app.py, its request validator and model   *)
(* resolver (utils.py) and the four handlers create_profile.py,            *)
(* get_profile.py, delete_profile.py and use_profile.py, run by            *)
(* concurrent request workers against a DynamoDB table and the Bedrock     *)
(* control and runtime planes.  Every external call is one atomic step     *)
(* that either succeeds or raises; the code between two external calls     *)
(* runs in the step of the call before it.                                 *)
(***************************************************************************)
EXTENDS Naturals, Sequences, FiniteSets, TLC

VARIABLES
    aws_clients,    \* utils.aws_clients: which boto3 clients were initialised
    table,          \* the DynamoDB table: a set of items
    profiles,       \* Bedrock: the application inference profiles that exist
    next_arn,       \* Bedrock: number of inference profiles created so far
    pc,             \* per worker: position in the handler
    data,           \* per worker: the JSON body of the request being served
    args,           \* per worker: the validated (team_tag, action, ...) tuple
    loc,            \* per worker: the handler's local variables
    resp,           \* per worker: the (body, status) pair returned
    calls,          \* per worker: external calls made for the current request
    fresh,          \* per worker (history): the request is a create whose
                    \* key held no item when it arrived, and no item of
                    \* that key was deleted since
    nreq,           \* number of requests received so far
    inference_profiles, \* scripts/invoke-demo-profile.py: the APPLICATION
                    \* inference profiles its Bedrock account holds
    script,         \* scripts/invoke-demo-profile.py: position and local
                    \* variables of create_profile_if_needed
    usage_data      \* lab_helpers/usage_tracker.py: UsageTracker.usage_data

\* the state of the demo script and of the lab helper, which the service
\* does not touch
labs == <<inference_profiles, script, usage_data>>

vars == <<aws_clients, table, profiles, next_arn, pc, data, args, loc, resp,
          calls, fresh, nreq, inference_profiles, script, usage_data>>

----------------------------------------------------------------------------
(* Bounds of the model *)

\* inference profiles the provider hands out before it starts refusing
MaxProfiles == 2
\* requests served in one behaviour
MaxRequests == 3
\* length of the version strings handed to sanitize_profile_name
MaxLen == 2

\* the request workers (threads of the WSGI server)
Procs == {"w1", "w2"}

----------------------------------------------------------------------------
(* Python values *)

\* Python's None (a JSON null, or dict.get of a key that is not there)
None == "<None>"
\* a key that the JSON object does not have
Missing == "<missing>"

\* Python truthiness of an optional string: `not x`
Falsy(x) == x = None \/ x = ""

\* dict.get(key): None when the key is missing
DictGet(d, k) == IF d[k] = Missing THEN None ELSE d[k]

\* dict.get(key, default)
DictGetDefault(d, k, dflt) == IF d[k] = Missing THEN dflt ELSE d[k]

----------------------------------------------------------------------------
(* Configuration: config/models.json as utils.load_model_config reads it *)

AWS_REGION == "us-west-2"
DEFAULT_VERSION == "3.5"
VALID_TEAMS == {"teama", "teamb"}
VALID_ACTIONS == {"create", "get", "delete", "use"}

\* (model_type, version) -> provider model id
RegistryKeys == {<<"claude", "3.5">>, <<"nova", "1.0">>}
MODEL_REGISTRY ==
    [k \in RegistryKeys |->
        IF k = <<"claude", "3.5">> THEN "anthropic.claude-3-5" ELSE "amazon.nova-1"]

\* team -> default (model_type, version); teamb has none, and the default
\* of teamc is a pair the registry does not hold
TEAM_DEFAULT_MODELS ==
    [t \in {"teama", "teamc"} |->
        IF t = "teama" THEN <<"claude", "3.5">> ELSE <<"titan", "1">>]

\* the account sts.get_caller_identity reports
ACCOUNT_ID == "111122223333"

----------------------------------------------------------------------------
(* Python strings: str(), str.replace, re.sub and str.rstrip, character by   *)
(* character                                                                *)

\* str(x) as an f-string renders it
Str(x) == IF x = None THEN "None" ELSE x

Digits == {"0", "1", "2", "3", "4", "5", "6", "7", "8", "9"}

Letters ==
    {"a", "b", "c", "d", "e", "f", "g", "h", "i", "j", "k", "l", "m",
     "n", "o", "p", "q", "r", "s", "t", "u", "v", "w", "x", "y", "z",
     "A", "B", "C", "D", "E", "F", "G", "H", "I", "J", "K", "L", "M",
     "N", "O", "P", "Q", "R", "S", "T", "U", "V", "W", "X", "Y", "Z"}

\* the character class [0-9a-zA-Z]
Alnum == Digits \cup Letters

\* the character class [ _-]
Separators == {" ", "_", "-"}

\* s.replace(old, new) for a one-character old
RECURSIVE StrReplace(_, _, _)
StrReplace(s, old, new) ==
    IF s = "" THEN ""
    ELSE (IF Head(s) = old THEN new ELSE Head(s))
             \o StrReplace(Tail(s), old, new)

\* re.sub(r'[^0-9a-zA-Z _-]', '_', s)
RECURSIVE ReSub(_)
ReSub(s) ==
    IF s = "" THEN ""
    ELSE (IF Head(s) \in Alnum \cup Separators THEN Head(s) ELSE "_")
             \o ReSub(Tail(s))

\* s.rstrip('_-')
RECURSIVE RStrip(_)
RStrip(s) ==
    IF s = "" THEN ""
    ELSE IF SubSeq(s, Len(s), Len(s)) \in {"_", "-"}
    THEN RStrip(SubSeq(s, 1, Len(s) - 1))
    ELSE s

----------------------------------------------------------------------------
(* utils.py: request validation, model resolution, responses *)

\* what a handler raised: ValueError, RuntimeError or botocore's ClientError
Raise(type, msg) == [type |-> type, msg |-> msg]

\* (mutant) the trailing separators are not stripped
SanitizeNoStrip(team_tag, model_type, version) ==
    LET sanitized_version == StrReplace(version, ".", "_")
        profile_name == Str(team_tag) \o "_" \o Str(model_type) \o "_"
                            \o sanitized_version
    IN  ReSub(profile_name)

\* sanitize_profile_name, for a version that is a string
sanitize_profile_name(team_tag, model_type, version) ==
    LET sanitized_version == StrReplace(version, ".", "_")
        profile_name == Str(team_tag) \o "_" \o Str(model_type) \o "_"
                            \o sanitized_version
        sanitized_name == ReSub(profile_name)
    IN  RStrip(sanitized_name)

NoArgs ==
    [team_tag |-> None, action |-> None, model_type |-> None,
     version |-> None, user_message |-> None]

\* (mutant) model_type is checked against the enumeration of the registry's
\* model types
ValidationErrorEnumerated(d) ==
    LET team_tag == DictGet(d, "team_tag")
        action == DictGet(d, "action")
        model_type == DictGet(d, "model_type")
        user_message == DictGet(d, "user_message")
    IN  IF \A k \in DOMAIN d \ {"json"} : d[k] = Missing
        THEN "No data provided"
        ELSE IF Falsy(team_tag) \/ team_tag \notin VALID_TEAMS
        THEN "Invalid team_tag"
        ELSE IF Falsy(action) \/ action \notin VALID_ACTIONS
        THEN "Invalid action"
        ELSE IF Falsy(model_type) \/ model_type \notin {k[1] : k \in RegistryKeys}
        THEN "model_type is required"
        ELSE IF action = "use" /\ Falsy(user_message)
        THEN "user_message is required for 'use' action"
        ELSE ""

\* validate_request_data: the ValueError message, or "" when the body passes
ValidationError(d) ==
    LET team_tag == DictGet(d, "team_tag")
        action == DictGet(d, "action")
        model_type == DictGet(d, "model_type")
        user_message == DictGet(d, "user_message")
    IN  IF \A k \in DOMAIN d \ {"json"} : d[k] = Missing
        THEN "No data provided"
        ELSE IF Falsy(team_tag) \/ team_tag \notin VALID_TEAMS
        THEN "Invalid team_tag"
        ELSE IF Falsy(action) \/ action \notin VALID_ACTIONS
        THEN "Invalid action"
        ELSE IF Falsy(model_type)
        THEN "model_type is required"
        ELSE IF action = "use" /\ Falsy(user_message)
        THEN "user_message is required for 'use' action"
        ELSE ""

\* validate_request_data: the tuple it returns for a body that passes
validate_request_data(d) ==
    [team_tag |-> DictGet(d, "team_tag"),
     action |-> DictGet(d, "action"),
     model_type |-> DictGet(d, "model_type"),
     version |-> DictGetDefault(d, "version", DEFAULT_VERSION),
     user_message |-> DictGet(d, "user_message")]

\* the ARN of a system inference profile of this account
ModelArn(account_id, model_id) ==
    "arn:aws:bedrock:" \o AWS_REGION \o ":" \o account_id
        \o ":inference-profile/" \o model_id

\* the message of the ValueError get_model_arn raises
ModelNotFound(model_type, version) ==
    "Model ARN not found for model_type: " \o Str(model_type)
        \o ", version: " \o Str(version)

\* (mutant) the team's default is looked up before the requested pair
GetModelArnTeamFirst(model_type, version, team_tag, account_id) ==
    LET model_key == <<model_type, version>>
    IN  IF ~Falsy(team_tag) /\ team_tag \in DOMAIN TEAM_DEFAULT_MODELS
           /\ TEAM_DEFAULT_MODELS[team_tag] \in DOMAIN MODEL_REGISTRY
        THEN [found |-> TRUE,
              model_id |-> MODEL_REGISTRY[TEAM_DEFAULT_MODELS[team_tag]],
              model_arn |-> ModelArn(account_id,
                               MODEL_REGISTRY[TEAM_DEFAULT_MODELS[team_tag]])]
        ELSE IF model_key \in DOMAIN MODEL_REGISTRY
        THEN [found |-> TRUE,
              model_id |-> MODEL_REGISTRY[model_key],
              model_arn |-> ModelArn(account_id, MODEL_REGISTRY[model_key])]
        ELSE [found |-> FALSE, model_id |-> None, model_arn |-> None]

\* (mutant) a pair that nothing resolves falls back to the first pair of
\* the registry
GetModelArnAnyDefault(model_type, version, team_tag, account_id) ==
    LET model_key == <<model_type, version>>
        fallback == CHOOSE k \in DOMAIN MODEL_REGISTRY : TRUE
    IN  IF model_key \in DOMAIN MODEL_REGISTRY
        THEN [found |-> TRUE,
              model_id |-> MODEL_REGISTRY[model_key],
              model_arn |-> ModelArn(account_id, MODEL_REGISTRY[model_key])]
        ELSE IF ~Falsy(team_tag) /\ team_tag \in DOMAIN TEAM_DEFAULT_MODELS
                /\ TEAM_DEFAULT_MODELS[team_tag] \in DOMAIN MODEL_REGISTRY
        THEN [found |-> TRUE,
              model_id |-> MODEL_REGISTRY[TEAM_DEFAULT_MODELS[team_tag]],
              model_arn |-> ModelArn(account_id,
                               MODEL_REGISTRY[TEAM_DEFAULT_MODELS[team_tag]])]
        ELSE [found |-> TRUE,
              model_id |-> MODEL_REGISTRY[fallback],
              model_arn |-> ModelArn(account_id, MODEL_REGISTRY[fallback])]

\* get_model_arn after the identity lookup: found, model_id, model_arn
get_model_arn(model_type, version, team_tag, account_id) ==
    LET model_key == <<model_type, version>>
    IN  IF model_key \in DOMAIN MODEL_REGISTRY
        THEN [found |-> TRUE,
              model_id |-> MODEL_REGISTRY[model_key],
              model_arn |-> ModelArn(account_id, MODEL_REGISTRY[model_key])]
        ELSE IF ~Falsy(team_tag) /\ team_tag \in DOMAIN TEAM_DEFAULT_MODELS
                /\ TEAM_DEFAULT_MODELS[team_tag] \in DOMAIN MODEL_REGISTRY
        THEN [found |-> TRUE,
              model_id |-> MODEL_REGISTRY[TEAM_DEFAULT_MODELS[team_tag]],
              model_arn |-> ModelArn(account_id,
                               MODEL_REGISTRY[TEAM_DEFAULT_MODELS[team_tag]])]
        ELSE [found |-> FALSE, model_id |-> None, model_arn |-> None]

\* the body of a response: `kind` tells which of the fields carry the data
Body(status, message, kind, arn, item, text) ==
    [status |-> status, message |-> message, kind |-> kind, arn |-> arn,
     item |-> item, text |-> text]

NoResponse == Body(0, "", "none", 0, {}, "")

\* create_success_response, by the shape of the data
create_success_response(kind, arn, item, text) ==
    Body(200, "", kind, arn, item, text)

\* create_error_response
create_error_response(message, status_code) ==
    Body(status_code, message, "error", 0, {}, "")

----------------------------------------------------------------------------
(* app.py: the exception boundary of handle_team_profile *)

\* except ValueError -> 400, except Exception -> 500, both with str(e)
ErrorResponse(e) ==
    IF e.type = "ValueError"
    THEN create_error_response(e.msg, 400)
    ELSE create_error_response(e.msg, 500)

\* action == 'get' and handle_get_profile returned None
GetNotFoundResponse(team_tag) ==
    create_error_response("No profile found for team " \o team_tag, 404)

----------------------------------------------------------------------------
(* The DynamoDB table *)

\* the composite sort key f"{model_type}#{version}"
SortKey(model_type, version) == Str(model_type) \o "#" \o Str(version)

\* (mutant) the sort key is built from the profile ARN, not the version
ProfileItemKeyedByArn(team_tag, model_type, version, profile_arn, model_arn) ==
    [team_tag |-> team_tag,
     model_type_version |-> SortKey(model_type, ToString(profile_arn)),
     model_type |-> model_type,
     version |-> version,
     profile_id |-> profile_arn,
     model_arn |-> model_arn]

\* the item store_profile_in_dynamodb builds
ProfileItem(team_tag, model_type, version, profile_arn, model_arn) ==
    [team_tag |-> team_tag,
     model_type_version |-> SortKey(model_type, version),
     model_type |-> model_type,
     version |-> version,
     profile_id |-> profile_arn,
     model_arn |-> model_arn]

\* GetItem by primary key (team_tag, model_type_version): the items found
GetItem(t, team_tag, model_type_version) ==
    {i \in t : i.team_tag = team_tag
               /\ i.model_type_version = model_type_version}

\* PutItem: an item replaces the one that has its primary key
PutItem(t, item) ==
    (t \ GetItem(t, item.team_tag, item.model_type_version)) \cup {item}

\* (mutant) the key names the sort key attribute wrongly: nothing matches
DeleteItemNoMatch(t, team_tag, model_type_version) == t

\* (mutant) the key leaves the sort key out: every item of the team goes
DeleteItemWholeTeam(t, team_tag, model_type_version) ==
    {i \in t : i.team_tag # team_tag}

\* DeleteItem by primary key
DeleteItem(t, team_tag, model_type_version) ==
    t \ GetItem(t, team_tag, model_type_version)

\* attribute_not_exists(team_tag) AND attribute_not_exists(model_type_version)
ConditionHolds(t, item) ==
    GetItem(t, item.team_tag, item.model_type_version) = {}

\* the items of the table that record the triple
RecordsOf(t, team_tag, model_type, version) ==
    {i \in t : i.team_tag = team_tag /\ i.model_type = model_type
               /\ i.version = version}

\* handle_get_profile: the profile dict made of the item read
ProfileOf(items) ==
    {[team_tag |-> i.team_tag, model_type |-> i.model_type,
      version |-> i.version, profile_id |-> i.profile_id,
      model_arn |-> i.model_arn] : i \in items}

----------------------------------------------------------------------------
(* The requests the clients send *)

\* a JSON object with the six keys the endpoint reads (Missing: key absent)
Request(team_tag, action, model_type, version, user_message) ==
    [json |-> TRUE, team_tag |-> team_tag, action |-> action,
     model_type |-> model_type, version |-> version,
     user_message |-> user_message, system_prompt |-> Missing]

\* a request whose body is not JSON: request.get_json() returns None
NoJson ==
    [json |-> FALSE, team_tag |-> Missing, action |-> Missing,
     model_type |-> Missing, version |-> Missing, user_message |-> Missing,
     system_prompt |-> Missing]

\* the request with the key system_prompt added
WithSystemPrompt(d, system_prompt) == [d EXCEPT !.system_prompt = system_prompt]

\* the (team_tag, model_type, version) the clients ask for: a registered
\* model, and two unregistered pairs (resolved by teama's default) that
\* share the sort key "nova#1#0"
Triples ==
    {<<"teama", "claude", "3.5">>,
     <<"teama", "nova#1", "0">>, <<"teama", "nova", "1#0">>}

Requests ==
    {Request(k[1], a, k[2], k[3], IF a = "use" THEN "hello" ELSE Missing) :
        k \in Triples, a \in VALID_ACTIONS}
    \cup {NoJson,
          Request(Missing, Missing, Missing, Missing, Missing),
          Request("teamx", "get", "claude", "3.5", Missing),
          Request("teama", "update", "claude", "3.5", Missing),
          Request("teama", "get", Missing, "3.5", Missing),
          Request("teama", "use", "claude", "3.5", Missing),
          Request("teamb", "create", "titan", "1", Missing),
          WithSystemPrompt(
              Request("teama", "use", "claude", "3.5", "hello"), "be brief"),
          WithSystemPrompt(
              Request("teama", "use", "claude", "3.5", "hello"), "")}

----------------------------------------------------------------------------
(* State of a request worker *)

\* the body of an invocation that has not been built
NoBody == [system |-> <<>>, messages |-> <<>>]

NoLoc ==
    [model_id |-> None, model_arn |-> None, profile_name |-> None,
     profile_arn |-> 0, item |-> {}, system_prompt |-> None, body |-> NoBody]

\* the requests of p and q address the same primary key of the table
SameKey(p, q) ==
    /\ args[p].team_tag = args[q].team_tag
    /\ SortKey(args[p].model_type, args[p].version)
           = SortKey(args[q].model_type, args[q].version)

\* the handler returned or raised: the response goes out
Respond(p, r) ==
    /\ pc' = [pc EXCEPT ![p] = "done"]
    /\ resp' = [resp EXCEPT ![p] = r]

\* an external call of the current request: the operation and the
\* inference profile it names (0: none)
Call(p, op, id) ==
    calls' = [calls EXCEPT ![p] = Append(@, [op |-> op, id |-> id])]

\* botocore's ClientError of a failed call
ClientError(op) == Raise("ClientError", "An error occurred when calling " \o op)

\* which clients AWSClientManager._initialize_clients managed to create: the
\* three are made in this order inside one try block
ClientStates ==
    {[bedrock_runtime |-> r, bedrock |-> b, dynamodb |-> d] :
        r \in BOOLEAN, b \in BOOLEAN, d \in BOOLEAN}

InitialClients == {c \in ClientStates : (c.dynamodb => c.bedrock)
                                        /\ (c.bedrock => c.bedrock_runtime)}

\* no ARN: the None of create_profile_if_needed (ARNs are numbered from 1)
NoArn == 0

\* create_profile_if_needed has not been called
ScriptAtRest ==
    [pc |-> "idle", tenant_id |-> None, listed |-> FALSE,
     existing_profiles |-> {}, profile_arn |-> NoArn, result |-> NoArn]

\* the demo script has not run, its account holds no inference profile, and
\* UsageTracker.__init__ has set `self.usage_data = []`
LabsAtRest ==
    /\ inference_profiles = {}
    /\ script = ScriptAtRest
    /\ usage_data = <<>>

Init ==
    /\ aws_clients \in InitialClients
    /\ table = {}
    /\ profiles = {}
    /\ next_arn = 0
    /\ pc = [p \in Procs |-> "idle"]
    /\ data = [p \in Procs |-> NoJson]
    /\ args = [p \in Procs |-> NoArgs]
    /\ loc = [p \in Procs |-> NoLoc]
    /\ resp = [p \in Procs |-> NoResponse]
    /\ calls = [p \in Procs |-> <<>>]
    /\ fresh = [p \in Procs |-> FALSE]
    /\ nreq = 0
    /\ LabsAtRest

----------------------------------------------------------------------------
(* app.py handle_team_profile: a request arrives *)

\* the code of the route and of the handler up to its first external call:
\* the exception raised there, or "" and the step the handler is at
Dispatch(clients, a) ==
    IF a.action = "create"
    THEN IF ~clients.bedrock
         THEN [exc |-> "Bedrock client not available", step |-> "done"]
         ELSE [exc |-> "", step |-> "create_sts"]
    ELSE IF a.action = "get"
    THEN IF ~clients.dynamodb
         THEN [exc |-> "DynamoDB client not available", step |-> "done"]
         ELSE [exc |-> "", step |-> "get_item"]
    ELSE IF a.action = "delete"
    THEN IF ~clients.dynamodb
         THEN [exc |-> "DynamoDB client not available", step |-> "done"]
         ELSE [exc |-> "", step |-> "delete_get"]
    ELSE IF ~clients.bedrock_runtime
         THEN [exc |-> "Bedrock Runtime client not available", step |-> "done"]
         ELSE IF ~clients.dynamodb
         THEN [exc |-> "DynamoDB client not available", step |-> "done"]
         ELSE [exc |-> "", step |-> "use_get"]

\* (mutant) a body that names a valid team and action is dispatched even
\* when validate_request_data raises
ServeDespiteValidation(p, d) ==
    /\ pc[p] \in {"idle", "done"}
    /\ nreq' = nreq + 1
    /\ data' = [data EXCEPT ![p] = d]
    /\ calls' = [calls EXCEPT ![p] = <<>>]
    /\ loc' = [loc EXCEPT ![p] = NoLoc]
    /\ IF ~d.json
       THEN /\ args' = [args EXCEPT ![p] = NoArgs]
            /\ fresh' = [fresh EXCEPT ![p] = FALSE]
            /\ Respond(p, create_error_response(
                   "No JSON data provided or invalid JSON format", 400))
       ELSE IF ValidationError(d) \in {"No data provided", "Invalid team_tag",
                                       "Invalid action"}
       THEN /\ args' = [args EXCEPT ![p] = NoArgs]
            /\ fresh' = [fresh EXCEPT ![p] = FALSE]
            /\ Respond(p, ErrorResponse(Raise("ValueError", ValidationError(d))))
       ELSE LET a == validate_request_data(d)
                first == Dispatch(aws_clients, a)
            IN  /\ args' = [args EXCEPT ![p] = a]
                /\ fresh' = [fresh EXCEPT ![p] =
                       /\ a.action = "create"
                       /\ GetItem(table, a.team_tag,
                                  SortKey(a.model_type, a.version)) = {}]
                /\ IF first.exc # ""
                   THEN Respond(p, ErrorResponse(Raise("RuntimeError", first.exc)))
                   ELSE /\ pc' = [pc EXCEPT ![p] = first.step]
                        /\ resp' = [resp EXCEPT ![p] = NoResponse]
    /\ UNCHANGED <<labs, aws_clients, table, profiles, next_arn>>

\* handle_team_profile is entered by worker p with the body d
Serve(p, d) ==
    /\ pc[p] \in {"idle", "done"}
    /\ nreq' = nreq + 1
    /\ data' = [data EXCEPT ![p] = d]
    /\ calls' = [calls EXCEPT ![p] = <<>>]
    /\ loc' = [loc EXCEPT ![p] = NoLoc]
    /\ IF ~d.json
       THEN /\ args' = [args EXCEPT ![p] = NoArgs]
            /\ fresh' = [fresh EXCEPT ![p] = FALSE]
            /\ Respond(p, create_error_response(
                   "No JSON data provided or invalid JSON format", 400))
       ELSE IF ValidationError(d) # ""
       THEN /\ args' = [args EXCEPT ![p] = NoArgs]
            /\ fresh' = [fresh EXCEPT ![p] = FALSE]
            /\ Respond(p, ErrorResponse(Raise("ValueError", ValidationError(d))))
       ELSE LET a == validate_request_data(d)
                first == Dispatch(aws_clients, a)
            IN  /\ args' = [args EXCEPT ![p] = a]
                /\ fresh' = [fresh EXCEPT ![p] =
                       /\ a.action = "create"
                       /\ GetItem(table, a.team_tag,
                                  SortKey(a.model_type, a.version)) = {}]
                /\ IF first.exc # ""
                   THEN Respond(p, ErrorResponse(Raise("RuntimeError", first.exc)))
                   ELSE /\ pc' = [pc EXCEPT ![p] = first.step]
                        /\ resp' = [resp EXCEPT ![p] = NoResponse]
    /\ UNCHANGED <<labs, aws_clients, table, profiles, next_arn>>

\* a request arrives, while the behaviour has requests left
Receive(p, d) ==
    /\ nreq < MaxRequests
    /\ Serve(p, d)

----------------------------------------------------------------------------
(* create_profile.py *)

\* (mutant) the registry is consulted first and the caller identity is
\* looked up only for a pair that resolves
CreateStsLookupAfterRegistry(p) ==
    /\ pc[p] = "create_sts"
    /\ LET r == get_model_arn(args[p].model_type, args[p].version,
                              args[p].team_tag, ACCOUNT_ID)
       IN  IF ~r.found
           THEN /\ Respond(p, ErrorResponse(Raise("ValueError",
                       ModelNotFound(args[p].model_type, args[p].version))))
                /\ UNCHANGED <<loc, calls>>
           ELSE /\ Call(p, "sts.get_caller_identity", 0)
                /\ \/ /\ Respond(p, ErrorResponse(ClientError("GetCallerIdentity")))
                      /\ UNCHANGED loc
                   \/ /\ loc' = [loc EXCEPT
                             ![p].model_id = r.model_id,
                             ![p].model_arn = r.model_arn,
                             ![p].profile_name =
                                 sanitize_profile_name(args[p].team_tag,
                                     args[p].model_type, args[p].version)]
                      /\ pc' = [pc EXCEPT ![p] = "create_bedrock"]
                      /\ UNCHANGED resp
    /\ UNCHANGED <<labs, aws_clients, table, profiles, next_arn, data, args, fresh, nreq>>

\* get_model_arn: the caller-identity lookup, then the registry; then
\* sanitize_profile_name, whose version.replace fails on None
CreateSts(p) ==
    /\ pc[p] = "create_sts"
    /\ Call(p, "sts.get_caller_identity", 0)
    /\ \/ /\ Respond(p, ErrorResponse(ClientError("GetCallerIdentity")))
          /\ UNCHANGED loc
       \/ LET r == get_model_arn(args[p].model_type, args[p].version,
                                 args[p].team_tag, ACCOUNT_ID)
          IN  IF ~r.found
              THEN /\ Respond(p, ErrorResponse(Raise("ValueError",
                          ModelNotFound(args[p].model_type, args[p].version))))
                   /\ UNCHANGED loc
              ELSE IF args[p].version = None
              THEN /\ Respond(p, ErrorResponse(Raise("AttributeError",
                          "'NoneType' object has no attribute 'replace'")))
                   /\ UNCHANGED loc
              ELSE /\ loc' = [loc EXCEPT
                          ![p].model_id = r.model_id,
                          ![p].model_arn = r.model_arn,
                          ![p].profile_name =
                              sanitize_profile_name(args[p].team_tag,
                                  args[p].model_type, args[p].version)]
                   /\ pc' = [pc EXCEPT ![p] = "create_bedrock"]
                   /\ UNCHANGED resp
    /\ UNCHANGED <<labs, aws_clients, table, profiles, next_arn, data, args, fresh, nreq>>

\* (mutant) a failed create_inference_profile is logged and the record is
\* stored all the same, with no profile ARN
CreateBedrockStoresOnFailure(p) ==
    /\ pc[p] = "create_bedrock"
    /\ \/ /\ Call(p, "bedrock.create_inference_profile", 0)
          /\ Respond(p, ErrorResponse(ClientError("CreateInferenceProfile")))
          /\ table' = PutItem(table, ProfileItem(args[p].team_tag,
                           args[p].model_type, args[p].version, 0,
                           loc[p].model_id))
          /\ UNCHANGED <<profiles, next_arn, loc>>
       \/ /\ next_arn < MaxProfiles
          /\ next_arn' = next_arn + 1
          /\ profiles' = profiles \cup {next_arn'}
          /\ Call(p, "bedrock.create_inference_profile", next_arn')
          /\ loc' = [loc EXCEPT ![p].profile_arn = next_arn']
          /\ pc' = [pc EXCEPT ![p] = "create_put"]
          /\ UNCHANGED <<resp, table>>
    /\ UNCHANGED <<labs, aws_clients, data, args, fresh, nreq>>

\* bedrock.create_inference_profile, then the entry of
\* store_profile_in_dynamodb
CreateBedrock(p) ==
    /\ pc[p] = "create_bedrock"
    /\ \/ /\ Call(p, "bedrock.create_inference_profile", 0)
          /\ Respond(p, ErrorResponse(ClientError("CreateInferenceProfile")))
          /\ UNCHANGED <<profiles, next_arn, loc>>
       \/ /\ next_arn < MaxProfiles
          /\ next_arn' = next_arn + 1
          /\ profiles' = profiles \cup {next_arn'}
          /\ Call(p, "bedrock.create_inference_profile", next_arn')
          /\ loc' = [loc EXCEPT ![p].profile_arn = next_arn']
          /\ IF ~aws_clients.dynamodb
             THEN Respond(p, ErrorResponse(Raise("RuntimeError",
                      "DynamoDB client not available")))
             ELSE /\ pc' = [pc EXCEPT ![p] = "create_put"]
                  /\ UNCHANGED resp
    /\ UNCHANGED <<labs, aws_clients, table, data, args, fresh, nreq>>

\* (mutant) put_item without the ConditionExpression
StoreUnconditionally(t, team_tag, model_type, version, profile_arn, model_arn) ==
    [table |-> PutItem(t, ProfileItem(team_tag, model_type, version,
                                      profile_arn, model_arn)),
     exc |-> ""]

\* (mutant) the condition is checked, but the item is written either way
StoreDespiteConflict(t, team_tag, model_type, version, profile_arn, model_arn) ==
    LET item == ProfileItem(team_tag, model_type, version, profile_arn, model_arn)
    IN  [table |-> PutItem(t, item),
         exc |-> IF ConditionHolds(t, item) THEN ""
                 ELSE "Profile already exists for team " \o team_tag]

\* store_profile_in_dynamodb when put_item answers: the table afterwards
\* and the message of the ValueError raised ("" when none)
store_profile_in_dynamodb(t, team_tag, model_type, version, profile_arn, model_arn) ==
    LET item == ProfileItem(team_tag, model_type, version, profile_arn, model_arn)
    IN  IF ConditionHolds(t, item)
        THEN [table |-> PutItem(t, item), exc |-> ""]
        ELSE [table |-> t,
              exc |-> "Profile already exists for team " \o team_tag]

\* (mutant) a rejected conditional write is followed by the deletion of the
\* inference profile just created
CreatePutRollsBack(p) ==
    /\ pc[p] = "create_put"
    /\ \/ /\ Call(p, "dynamodb.put_item", loc[p].profile_arn)
          /\ Respond(p, ErrorResponse(ClientError("PutItem")))
          /\ UNCHANGED <<table, profiles>>
       \/ LET r == store_profile_in_dynamodb(table, args[p].team_tag,
                       args[p].model_type, args[p].version,
                       loc[p].profile_arn, loc[p].model_id)
          IN  /\ table' = r.table
              /\ IF r.exc # ""
                 THEN /\ calls' = [calls EXCEPT ![p] =
                             @ \o <<[op |-> "dynamodb.put_item",
                                     id |-> loc[p].profile_arn],
                                    [op |-> "bedrock.delete_inference_profile",
                                     id |-> loc[p].profile_arn]>>]
                      /\ profiles' = profiles \ {loc[p].profile_arn}
                      /\ Respond(p, ErrorResponse(Raise("ValueError", r.exc)))
                 ELSE /\ Call(p, "dynamodb.put_item", loc[p].profile_arn)
                      /\ UNCHANGED profiles
                      /\ Respond(p, create_success_response(
                             "inferenceProfileArn", loc[p].profile_arn, {}, ""))
    /\ UNCHANGED <<labs, aws_clients, next_arn, data, args, loc, fresh, nreq>>

\* dynamodb.put_item with the condition expression, then the return
CreatePut(p) ==
    /\ pc[p] = "create_put"
    /\ Call(p, "dynamodb.put_item", loc[p].profile_arn)
    /\ \/ /\ Respond(p, ErrorResponse(ClientError("PutItem")))
          /\ UNCHANGED table
       \/ LET r == store_profile_in_dynamodb(table, args[p].team_tag,
                       args[p].model_type, args[p].version,
                       loc[p].profile_arn, loc[p].model_id)
          IN  /\ table' = r.table
              /\ IF r.exc # ""
                 THEN Respond(p, ErrorResponse(Raise("ValueError", r.exc)))
                 ELSE Respond(p, create_success_response(
                          "inferenceProfileArn", loc[p].profile_arn, {}, ""))
    /\ UNCHANGED <<labs, aws_clients, profiles, next_arn, data, args, loc, fresh, nreq>>

----------------------------------------------------------------------------
(* get_profile.py *)

\* (mutant) the sort key is built as f"{version}#{model_type}"
GetProfileKeySwapped(t, team_tag, model_type, version) ==
    ProfileOf(GetItem(t, team_tag, SortKey(version, model_type)))

\* handle_get_profile when get_item answers: the profile dict, {} for None
handle_get_profile(t, team_tag, model_type, version) ==
    ProfileOf(GetItem(t, team_tag, SortKey(model_type, version)))

\* action == 'get': the response for what handle_get_profile returned
GetResponse(profile, team_tag) ==
    IF profile = {}
    THEN GetNotFoundResponse(team_tag)
    ELSE create_success_response("profile", 0, profile, "")

\* dynamodb.get_item, then the return and the route's 404
GetProfile(p) ==
    /\ pc[p] = "get_item"
    /\ Call(p, "dynamodb.get_item", 0)
    /\ \/ Respond(p, ErrorResponse(ClientError("GetItem")))
       \/ Respond(p, GetResponse(
              handle_get_profile(table, args[p].team_tag,
                                 args[p].model_type, args[p].version),
              args[p].team_tag))
    /\ UNCHANGED <<labs, aws_clients, table, profiles, next_arn, data, args, loc, fresh, nreq>>

----------------------------------------------------------------------------
(* delete_profile.py *)

\* (mutant) the delete reads some record of the team, whatever its sort key
DeleteGetByTeam(p) ==
    /\ pc[p] = "delete_get"
    /\ Call(p, "dynamodb.get_item", 0)
    /\ \/ /\ Respond(p, ErrorResponse(ClientError("GetItem")))
          /\ UNCHANGED loc
       \/ LET ofTeam == {i \in table : i.team_tag = args[p].team_tag}
          IN  IF ofTeam = {}
              THEN /\ Respond(p, ErrorResponse(Raise("ValueError",
                          "No profile found for team " \o args[p].team_tag)))
                   /\ UNCHANGED loc
              ELSE \E i \in ofTeam :
                   /\ loc' = [loc EXCEPT ![p].item = {i},
                                         ![p].profile_arn = i.profile_id]
                   /\ pc' = [pc EXCEPT ![p] = "delete_bedrock"]
                   /\ UNCHANGED resp
    /\ UNCHANGED <<labs, aws_clients, table, profiles, next_arn, data, args, fresh, nreq>>

\* (mutant) the delete goes from the item read to delete_item and leaves
\* the inference profile alone
DeleteGetSkipsBedrock(p) ==
    /\ pc[p] = "delete_get"
    /\ Call(p, "dynamodb.get_item", 0)
    /\ \/ /\ Respond(p, ErrorResponse(ClientError("GetItem")))
          /\ UNCHANGED loc
       \/ LET item == GetItem(table, args[p].team_tag,
                              SortKey(args[p].model_type, args[p].version))
          IN  IF item = {}
              THEN /\ Respond(p, ErrorResponse(Raise("ValueError",
                          "No profile found for team " \o args[p].team_tag)))
                   /\ UNCHANGED loc
              ELSE /\ loc' = [loc EXCEPT ![p].item = item,
                                         ![p].profile_arn =
                                             (CHOOSE i \in item : TRUE).profile_id]
                   /\ pc' = [pc EXCEPT ![p] = "delete_item"]
                   /\ UNCHANGED resp
    /\ UNCHANGED <<labs, aws_clients, table, profiles, next_arn, data, args, fresh, nreq>>

\* table.get_item, then `if not item: raise ValueError`
DeleteGet(p) ==
    /\ pc[p] = "delete_get"
    /\ Call(p, "dynamodb.get_item", 0)
    /\ \/ /\ Respond(p, ErrorResponse(ClientError("GetItem")))
          /\ UNCHANGED loc
       \/ LET item == GetItem(table, args[p].team_tag,
                              SortKey(args[p].model_type, args[p].version))
          IN  IF item = {}
              THEN /\ Respond(p, ErrorResponse(Raise("ValueError",
                          "No profile found for team " \o args[p].team_tag)))
                   /\ UNCHANGED loc
              ELSE /\ loc' = [loc EXCEPT ![p].item = item,
                                         ![p].profile_arn =
                                             (CHOOSE i \in item : TRUE).profile_id]
                   /\ pc' = [pc EXCEPT ![p] = "delete_bedrock"]
                   /\ UNCHANGED resp
    /\ UNCHANGED <<labs, aws_clients, table, profiles, next_arn, data, args, fresh, nreq>>

\* (mutant) a failed delete_inference_profile is logged, not re-raised
DeleteBedrockSwallowsError(p) ==
    /\ pc[p] = "delete_bedrock"
    /\ Call(p, "bedrock.delete_inference_profile", loc[p].profile_arn)
    /\ \/ UNCHANGED profiles
       \/ /\ loc[p].profile_arn \in profiles
          /\ profiles' = profiles \ {loc[p].profile_arn}
    /\ pc' = [pc EXCEPT ![p] = "delete_item"]
    /\ UNCHANGED <<labs, aws_clients, table, next_arn, data, args, loc, resp, fresh, nreq>>

\* (mutant) the profile deleted is the one created last, not the one of
\* the item read
DeleteBedrockOfLatest(p) ==
    /\ pc[p] = "delete_bedrock"
    /\ Call(p, "bedrock.delete_inference_profile", next_arn)
    /\ \/ /\ Respond(p, ErrorResponse(ClientError("DeleteInferenceProfile")))
          /\ UNCHANGED profiles
       \/ /\ next_arn \in profiles
          /\ profiles' = profiles \ {next_arn}
          /\ pc' = [pc EXCEPT ![p] = "delete_item"]
          /\ UNCHANGED resp
    /\ UNCHANGED <<labs, aws_clients, table, next_arn, data, args, loc, fresh, nreq>>

\* (mutant) a failed delete_inference_profile is tried once more
DeleteBedrockRetries(p) ==
    /\ pc[p] = "delete_bedrock"
    /\ Call(p, "bedrock.delete_inference_profile", loc[p].profile_arn)
    /\ \/ /\ IF Len(calls[p]) < 2
             THEN UNCHANGED <<pc, resp>>
             ELSE Respond(p, ErrorResponse(ClientError("DeleteInferenceProfile")))
          /\ UNCHANGED profiles
       \/ /\ loc[p].profile_arn \in profiles
          /\ profiles' = profiles \ {loc[p].profile_arn}
          /\ pc' = [pc EXCEPT ![p] = "delete_item"]
          /\ UNCHANGED resp
    /\ UNCHANGED <<labs, aws_clients, table, next_arn, data, args, loc, fresh, nreq>>

\* bedrock.delete_inference_profile(profile_id): the provider refuses an
\* identifier that names no profile
DeleteBedrock(p) ==
    /\ pc[p] = "delete_bedrock"
    /\ Call(p, "bedrock.delete_inference_profile", loc[p].profile_arn)
    /\ \/ /\ Respond(p, ErrorResponse(ClientError("DeleteInferenceProfile")))
          /\ UNCHANGED profiles
       \/ /\ loc[p].profile_arn \in profiles
          /\ profiles' = profiles \ {loc[p].profile_arn}
          /\ pc' = [pc EXCEPT ![p] = "delete_item"]
          /\ UNCHANGED resp
    /\ UNCHANGED <<labs, aws_clients, table, next_arn, data, args, loc, fresh, nreq>>

\* (mutant) a failed delete_item is compensated: the inference profile is
\* put back before the error goes out
DeleteLocalCompensates(p) ==
    /\ pc[p] = "delete_item"
    /\ Call(p, "dynamodb.delete_item", 0)
    /\ \/ /\ Respond(p, ErrorResponse(ClientError("DeleteItem")))
          /\ profiles' = profiles \cup {loc[p].profile_arn}
          /\ UNCHANGED <<table, fresh>>
       \/ /\ table' = DeleteItem(table, args[p].team_tag,
                                 SortKey(args[p].model_type, args[p].version))
          /\ fresh' = [q \in Procs |-> fresh[q] /\ ~SameKey(p, q)]
          /\ UNCHANGED profiles
          /\ Respond(p, create_success_response("deleted", 0, {}, ""))
    /\ UNCHANGED <<labs, aws_clients, next_arn, data, args, loc, nreq>>

\* dynamodb.delete_item by key, then return {"deleted": True}
DeleteLocal(p) ==
    /\ pc[p] = "delete_item"
    /\ Call(p, "dynamodb.delete_item", 0)
    /\ \/ /\ Respond(p, ErrorResponse(ClientError("DeleteItem")))
          /\ UNCHANGED <<table, fresh>>
       \/ /\ table' = DeleteItem(table, args[p].team_tag,
                                 SortKey(args[p].model_type, args[p].version))
          /\ fresh' = [q \in Procs |-> fresh[q] /\ ~SameKey(p, q)]
          /\ Respond(p, create_success_response("deleted", 0, {}, ""))
    /\ UNCHANGED <<labs, aws_clients, profiles, next_arn, data, args, loc, nreq>>

----------------------------------------------------------------------------
(* use_profile.py *)
\* the instruction handle_use_profile falls back to
DEFAULT_SYSTEM_PROMPT ==
    "You are a personal AI assistant, try to provide most accurate answers to the user query"

\* `if not system_prompt: system_prompt = ...`
SystemPromptOrDefault(system_prompt) ==
    IF Falsy(system_prompt) THEN DEFAULT_SYSTEM_PROMPT ELSE system_prompt

\* the body handle_use_profile hands to invoke_model: json.dumps of
\* {"messages": [{"role": "user", "content": [{"text": user_message}]}]};
\* system_prompt is not part of it
InvokeBody(user_message, system_prompt) ==
    [system |-> <<>>,
     messages |-> <<[role |-> "user", text |-> user_message]>>]

\* app1.ConversationManager.converse_with_model: the system and messages
\* arguments of bedrock_runtime.converse
app1_converse_with_model(user_message, system_prompt) ==
    [system |-> <<SystemPromptOrDefault(system_prompt)>>,
     messages |-> <<[role |-> "user", text |-> user_message]>>]


\* (mutant) the lookup of use is by team only: any record of the team serves
UseGetByTeam(p) ==
    /\ pc[p] = "use_get"
    /\ Call(p, "dynamodb.get_item", 0)
    /\ \/ /\ Respond(p, ErrorResponse(ClientError("GetItem")))
          /\ UNCHANGED loc
       \/ LET found == {i \in table : i.team_tag = args[p].team_tag}
          IN  IF found = {}
              THEN /\ Respond(p, ErrorResponse(Raise("ValueError",
                          "No profile found for team " \o args[p].team_tag
                              \o " with model " \o args[p].model_type)))
                   /\ UNCHANGED loc
              ELSE \E i \in found :
                   /\ loc' = [loc EXCEPT ![p].item = ProfileOf({i}),
                                         ![p].profile_arn = i.profile_id]
                   /\ pc' = [pc EXCEPT ![p] = "use_invoke"]
                   /\ UNCHANGED resp
    /\ UNCHANGED <<labs, aws_clients, table, profiles, next_arn, data, args, fresh, nreq>>

\* handle_get_profile, then `if not profile: raise ValueError`
UseGet(p) ==
    /\ pc[p] = "use_get"
    /\ Call(p, "dynamodb.get_item", 0)
    /\ \/ /\ Respond(p, ErrorResponse(ClientError("GetItem")))
          /\ UNCHANGED loc
       \/ LET profile == handle_get_profile(table, args[p].team_tag,
                             args[p].model_type, args[p].version)
          IN  IF profile = {}
              THEN /\ Respond(p, ErrorResponse(Raise("ValueError",
                          "No profile found for team " \o args[p].team_tag
                              \o " with model " \o args[p].model_type)))
                   /\ UNCHANGED loc
              ELSE /\ loc' = [loc EXCEPT
                          ![p].item = profile,
                          ![p].profile_arn =
                              (CHOOSE i \in profile : TRUE).profile_id,
                          ![p].system_prompt = SystemPromptOrDefault(
                              DictGet(data[p], "system_prompt")),
                          ![p].body = InvokeBody(args[p].user_message,
                              DictGet(data[p], "system_prompt"))]
                   /\ pc' = [pc EXCEPT ![p] = "use_invoke"]
                   /\ UNCHANGED resp
    /\ UNCHANGED <<labs, aws_clients, table, profiles, next_arn, data, args, fresh, nreq>>

\* (mutant) a failed invoke_model makes the handler drop the record it used
UseInvokeDropsRecord(p) ==
    /\ pc[p] = "use_invoke"
    /\ Call(p, "bedrock_runtime.invoke_model", loc[p].profile_arn)
    /\ \/ /\ Respond(p, ErrorResponse(ClientError("InvokeModel")))
          /\ table' = DeleteItem(table, args[p].team_tag,
                                 SortKey(args[p].model_type, args[p].version))
       \/ /\ loc[p].profile_arn \in profiles
          /\ Respond(p, create_success_response(
                 "conversation", loc[p].profile_arn, {}, "reply"))
          /\ UNCHANGED table
    /\ UNCHANGED <<labs, aws_clients, profiles, next_arn, data, args, loc, fresh, nreq>>

\* bedrock_runtime.invoke_model(modelId=profile_id): the provider refuses
\* an identifier that names no profile
UseInvoke(p) ==
    /\ pc[p] = "use_invoke"
    /\ Call(p, "bedrock_runtime.invoke_model", loc[p].profile_arn)
    /\ \/ Respond(p, ErrorResponse(ClientError("InvokeModel")))
       \/ /\ loc[p].profile_arn \in profiles
          /\ Respond(p, create_success_response(
                 "conversation", loc[p].profile_arn, {}, "reply"))
    /\ UNCHANGED <<labs, aws_clients, table, profiles, next_arn, data, args, loc, fresh, nreq>>

----------------------------------------------------------------------------
(* The service: workers take requests and run them step by step *)

Next ==
    \/ \E p \in Procs, d \in Requests : Receive(p, d)
    \/ \E p \in Procs : CreateSts(p)
    \/ \E p \in Procs : CreateBedrock(p)
    \/ \E p \in Procs : CreatePut(p)
    \/ \E p \in Procs : GetProfile(p)
    \/ \E p \in Procs : DeleteGet(p)
    \/ \E p \in Procs : DeleteBedrock(p)
    \/ \E p \in Procs : DeleteLocal(p)
    \/ \E p \in Procs : UseGet(p)
    \/ \E p \in Procs : UseInvoke(p)

Spec == Init /\ [][Next]_vars

----------------------------------------------------------------------------
(* One call against a service that has just started: the route with any    *)
(* JSON body, or handle_create_profile, app1's get_model_arn or            *)
(* sanitize_profile_name with any arguments                                *)

\* the values a client may put under each key of the body
BodyTeams == {Missing, None, "", "teama", "teamx"}
BodyActions == {Missing, "", "create", "get", "delete", "use", "update"}
BodyModelTypes == {Missing, None, "", "claude", "gpt"}
BodyVersions == {Missing, None, "", "3.5", ".5"}
BodyMessages == {Missing, "", "hello"}

Bodies ==
    {Request(t, a, m, v, u) : t \in BodyTeams, a \in BodyActions,
         m \in BodyModelTypes, v \in BodyVersions, u \in BodyMessages}
    \cup {NoJson}

\* the arguments of a call handler(team_tag, model_type, version)
HandlerArgs(team_tag, model_type, version) ==
    [team_tag |-> team_tag, action |-> None, model_type |-> model_type,
     version |-> version, user_message |-> None]

\* get_model_arn: registered and unregistered pairs, for no team, for teams
\* with a registered default, with no default, with an unregistered default
ResolveArgs ==
    {HandlerArgs(t, k[1], k[2]) :
        t \in {None, "", "teama", "teamb", "teamc"},
        k \in {<<"claude", "3.5">>, <<"nova", "1.0">>, <<"claude", "1.0">>,
               <<"titan", "1">>}}

\* the characters of the strings handed to sanitize_profile_name
Alphabet == {"a", "_", "-", " ", "."}

\* the strings over the alphabet of length n at most
RECURSIVE Strs(_)
Strs(n) ==
    IF n = 0 THEN {""}
    ELSE LET shorter == Strs(n - 1)
         IN  shorter \cup {s \o c : s \in shorter, c \in Alphabet}

SanitizeArgs ==
    {HandlerArgs(t, m, v) : t \in {"team-a", ""},
         m \in {"claude", "a", "", "a.", "-"}, v \in Strs(MaxLen) \cup {"3.5"}}

\* the thread that makes the call
Caller == CHOOSE p \in Procs : TRUE

\* the service has started and the caller is at `at` with the arguments a
CallInit(clients, at, a) ==
    /\ aws_clients = clients
    /\ table = {}
    /\ profiles = {}
    /\ next_arn = 0
    /\ pc = [p \in Procs |-> IF p = Caller THEN at ELSE "idle"]
    /\ data = [p \in Procs |-> NoJson]
    /\ args = [p \in Procs |-> IF p = Caller THEN a ELSE NoArgs]
    /\ loc = [p \in Procs |-> NoLoc]
    /\ resp = [p \in Procs |-> NoResponse]
    /\ calls = [p \in Procs |-> <<>>]
    /\ fresh = [p \in Procs |-> p = Caller /\ at = "create_sts"]
    /\ nreq = 0
    /\ LabsAtRest

AllClients == [bedrock_runtime |-> TRUE, bedrock |-> TRUE, dynamodb |-> TRUE]

\* triples handle_create_profile accepts for a valid team (teama's default
\* resolves every pair), some of letters and digits only, some that differ
\* in a separator or a dot
NameTriples ==
    {<<"teama", "claude", "3.5">>, <<"teama", "claude", "3_5">>,
     <<"teama", "claude", "3.5-">>, <<"teama", "claude", "35">>,
     <<"teamb", "claude", "35">>, <<"teama", "claude3", "5">>}

\* sanitize_profile_name is called for two triples, one by each thread
TwoNamesInit(k, l) ==
    /\ aws_clients = AllClients
    /\ table = {}
    /\ profiles = {}
    /\ next_arn = 0
    /\ pc = [p \in Procs |-> "sanitize_profile_name"]
    /\ data = [p \in Procs |-> NoJson]
    /\ args = [p \in Procs |->
                  IF p = Caller
                  THEN HandlerArgs(k[1], k[2], k[3])
                  ELSE HandlerArgs(l[1], l[2], l[3])]
    /\ loc = [p \in Procs |-> NoLoc]
    /\ resp = [p \in Procs |-> NoResponse]
    /\ calls = [p \in Procs |-> <<>>]
    /\ fresh = [p \in Procs |-> FALSE]
    /\ nreq = 0
    /\ LabsAtRest

InitCall ==
    \/ \E c \in InitialClients : CallInit(c, "idle", NoArgs)
    \/ \E c \in {i \in InitialClients : i.bedrock}, a \in ResolveArgs :
           CallInit(c, "create_sts", a)
    \/ \E a \in ResolveArgs : CallInit(AllClients, "app1_get_model_arn", a)
    \/ \E a \in SanitizeArgs : CallInit(AllClients, "sanitize_profile_name", a)
    \/ \E k \in NameTriples, l \in NameTriples : TwoNamesInit(k, l)

\* the one request of the behaviour arrives at the route
RouteCall(p, d) ==
    /\ nreq = 0
    /\ \A q \in Procs : pc[q] = "idle"
    /\ Receive(p, d)

\* sanitize_profile_name(team_tag, model_type, version) returns
Sanitize(p) ==
    /\ pc[p] = "sanitize_profile_name"
    /\ loc' = [loc EXCEPT ![p].profile_name =
                   sanitize_profile_name(args[p].team_tag, args[p].model_type,
                                         args[p].version)]
    /\ pc' = [pc EXCEPT ![p] = "sanitized"]
    /\ UNCHANGED <<labs, aws_clients, table, profiles, next_arn, data, args, resp,
                   calls, fresh, nreq>>

\* app1.get_model_arn after the identity lookup: found, and the value
\* returned, which is the tuple (model_id, model_arn) or the string model_id
app1_get_model_arn(model_type, version, team_tag, account_id) ==
    LET model_key == <<model_type, version>>
    IN  IF model_key \in DOMAIN MODEL_REGISTRY
        THEN [found |-> TRUE, tuple |-> TRUE,
              value |-> <<MODEL_REGISTRY[model_key],
                          ModelArn(account_id, MODEL_REGISTRY[model_key])>>]
        ELSE IF ~Falsy(team_tag) /\ team_tag \in DOMAIN TEAM_DEFAULT_MODELS
                /\ TEAM_DEFAULT_MODELS[team_tag] \in DOMAIN MODEL_REGISTRY
        THEN [found |-> TRUE, tuple |-> FALSE,
              value |-> MODEL_REGISTRY[TEAM_DEFAULT_MODELS[team_tag]]]
        ELSE [found |-> FALSE, tuple |-> FALSE, value |-> None]

\* app1.create_profile: `model_id,model_arn = get_model_arn(...)`; unpacking
\* a string that is not two characters long raises ValueError, which the
\* route of app1 answers with "Invalid request data"
App1GetModelArn(p) ==
    /\ pc[p] = "app1_get_model_arn"
    /\ Call(p, "sts.get_caller_identity", 0)
    /\ \/ /\ Respond(p, create_error_response("An unexpected error occurred", 500))
          /\ UNCHANGED loc
       \/ LET r == app1_get_model_arn(args[p].model_type, args[p].version,
                                      args[p].team_tag, ACCOUNT_ID)
          IN  IF ~r.found \/ (~r.tuple /\ Len(r.value) # 2)
              THEN /\ Respond(p, create_error_response("Invalid request data", 400))
                   /\ UNCHANGED loc
              ELSE /\ loc' = [loc EXCEPT
                          ![p].model_id =
                              IF r.tuple THEN r.value[1] ELSE Head(r.value),
                          ![p].model_arn =
                              IF r.tuple THEN r.value[2] ELSE Tail(r.value)]
                   /\ pc' = [pc EXCEPT ![p] = "app1_resolved"]
                   /\ UNCHANGED resp
    /\ UNCHANGED <<labs, aws_clients, table, profiles, next_arn, data, args, fresh, nreq>>

NextCall ==
    \/ \E d \in Bodies : RouteCall(Caller, d)
    \/ CreateSts(Caller)
    \/ CreateBedrock(Caller)
    \/ CreatePut(Caller)
    \/ GetProfile(Caller)
    \/ DeleteGet(Caller)
    \/ UseGet(Caller)
    \/ \E p \in Procs : Sanitize(p)
    \/ App1GetModelArn(Caller)

SpecCall == InitCall /\ [][NextCall]_vars

----------------------------------------------------------------------------
(* A client that sends create, get, delete, get for one triple, each after *)
(* the answer to the one before, to a service that may have served one     *)
(* create before; the client gives up when an answer is a 500              *)

RoundTrip == <<"create", "get", "delete", "get">>

\* the worker that serves the earlier create
Other == CHOOSE p \in Procs : p # Caller

\* the create requests a client may have sent before
EarlierCreates == {d \in Requests : d.json /\ d.action = "create"}

\* the earlier create arrives, before the client starts
EarlierCreate(d) ==
    /\ nreq = 0
    /\ Serve(Other, d)

\* the number of requests the client has sent
Position == IF pc[Other] = "idle" THEN nreq ELSE nreq - 1

\* the client sends its next request for the triple k: the first when the
\* table records no such triple, the others for the triple of the first
RoundTripStep(k) ==
    /\ pc[Other] \in {"idle", "done"}
    /\ Position < Len(RoundTrip)
    /\ IF Position = 0
       THEN RecordsOf(table, k[1], k[2], k[3]) = {}
       ELSE /\ resp[Caller].status # 500
            /\ k = <<args[Caller].team_tag, args[Caller].model_type,
                     args[Caller].version>>
    /\ Serve(Caller, Request(k[1], RoundTrip[Position + 1], k[2], k[3], Missing))

NextRoundTrip ==
    \/ \E d \in EarlierCreates : EarlierCreate(d)
    \/ \E k \in Triples : RoundTripStep(k)
    \/ \E p \in Procs : CreateSts(p)
    \/ \E p \in Procs : CreateBedrock(p)
    \/ \E p \in Procs : CreatePut(p)
    \/ GetProfile(Caller)
    \/ DeleteGet(Caller)
    \/ DeleteBedrock(Caller)
    \/ DeleteLocal(Caller)

SpecRoundTrip == Init /\ [][NextRoundTrip]_vars

----------------------------------------------------------------------------
(* scripts/invoke-demo-profile.py: create_profile_if_needed, called by cron *)
(* for one tenant after the other                                          *)

\* the variables of the service, which the script and the lab helper leave
\* alone
service == <<aws_clients, table, profiles, next_arn, pc, data, args, loc,
             resp, calls, fresh, nreq>>

\* the tenants the cron job runs the script for
Tenants == {"tenant-a", "tenant-b"}

\* profile_name = f"{tenant_id}-sonnet-4_0"
ProfileNameOf(tenant_id) == tenant_id \o "-sonnet-4_0"

\* the inference profiles of the account that have the name
Named(name) == {s \in inference_profiles : s.inferenceProfileName = name}

\* {p['inferenceProfileName']: p['inferenceProfileArn'] for p in summaries}:
\* one entry per name, the one listed last when a name is listed twice; the
\* order of the list is the provider's, so any of them
DictsOf(summaries) ==
    {d \in SUBSET summaries :
        \A s \in summaries :
            Cardinality({e \in d : e.inferenceProfileName
                                       = s.inferenceProfileName}) = 1}

\* create_profile_if_needed(tenant_id) is called
StartScript(tenant_id) ==
    /\ script.pc \in {"idle", "returned"}
    /\ script' = [ScriptAtRest EXCEPT !.pc = "list_inference_profiles",
                                      !.tenant_id = tenant_id]
    /\ UNCHANGED <<service, inference_profiles, usage_data>>

\* the inner try: list_inference_profiles(typeEquals='APPLICATION'), then
\* `if profile_name in existing_profiles: return existing_profiles[...]`;
\* `except Exception` logs a warning and goes on to the creation
ListProfiles ==
    /\ script.pc = "list_inference_profiles"
    /\ \/ script' = [script EXCEPT !.pc = "get_caller_identity"]
       \/ \E d \in DictsOf(inference_profiles) :
            LET found == {e \in d : e.inferenceProfileName
                                        = ProfileNameOf(script.tenant_id)}
            IN  IF found # {}
                THEN script' = [script EXCEPT
                        !.pc = "returned", !.listed = TRUE,
                        !.existing_profiles = d,
                        !.result = (CHOOSE e \in found : TRUE).inferenceProfileArn]
                ELSE script' = [script EXCEPT
                        !.pc = "get_caller_identity", !.listed = TRUE,
                        !.existing_profiles = d]
    /\ UNCHANGED <<service, inference_profiles, usage_data>>

\* sts_client.get_caller_identity()['Account']; a failure is caught by the
\* outer `except Exception`, which returns None
GetCallerIdentity ==
    /\ script.pc = "get_caller_identity"
    /\ \/ script' = [script EXCEPT !.pc = "returned", !.result = NoArn]
       \/ script' = [script EXCEPT !.pc = "create_inference_profile"]
    /\ UNCHANGED <<service, inference_profiles, usage_data>>

\* client.create_inference_profile(inferenceProfileName=profile_name, ...):
\* the provider refuses (outer except, None) or hands out a new ARN
CreateInferenceProfile ==
    /\ script.pc = "create_inference_profile"
    /\ \/ /\ script' = [script EXCEPT !.pc = "returned", !.result = NoArn]
          /\ UNCHANGED inference_profiles
       \/ /\ Cardinality(inference_profiles) < MaxProfiles
          /\ LET arn == Cardinality(inference_profiles) + 1
             IN  /\ inference_profiles' = inference_profiles \cup
                        {[inferenceProfileName |-> ProfileNameOf(script.tenant_id),
                          inferenceProfileArn |-> arn]}
                 /\ script' = [script EXCEPT !.pc = "verify",
                                             !.profile_arn = arn]
    /\ UNCHANGED <<service, usage_data>>

\* the verification list (its result and its failure are only logged),
\* update_profiles_file and `return profile_arn`
VerifyAndReturn ==
    /\ script.pc = "verify"
    /\ script' = [script EXCEPT !.pc = "returned", !.result = script.profile_arn]
    /\ UNCHANGED <<service, inference_profiles, usage_data>>

InitScript ==
    /\ CallInit(AllClients, "idle", NoArgs)

NextScript ==
    \/ \E tenant_id \in Tenants : StartScript(tenant_id)
    \/ ListProfiles
    \/ GetCallerIdentity
    \/ CreateInferenceProfile
    \/ VerifyAndReturn

SpecScript == InitScript /\ [][NextScript]_vars

----------------------------------------------------------------------------
(* labs/lab_helpers/usage_tracker.py: one UsageTracker, whose methods are  *)
(* called one after the other                                              *)

\* a key of the response that may be missing: <<>> or <<value>>
Opt(values) == {<<>>} \cup {<<v>> : v \in values}

\* dict.get(key, default) of such a key
OptGet(o, dflt) == IF o = <<>> THEN dflt ELSE o[1]

\* the Bedrock responses handed to the tracker: with or without 'usage',
\* whose 'inputTokens' and 'outputTokens' may be missing
Responses ==
    {[usage |-> u] :
        u \in Opt({[inputTokens |-> i, outputTokens |-> o] :
                      i \in Opt({1, 2}), o \in Opt({1})})}

\* (mutant) total_tokens is the input tokens alone
ExtractUsageTotalIsInput(response, tenant_id) ==
    LET has == response.usage # <<>>
        input_tokens == IF has THEN OptGet(response.usage[1].inputTokens, 0)
                        ELSE 0
        output_tokens == IF has THEN OptGet(response.usage[1].outputTokens, 0)
                         ELSE 0
    IN  [tenant_id |-> tenant_id,
         input_tokens |-> input_tokens,
         output_tokens |-> output_tokens,
         total_tokens |-> input_tokens,
         latency_ms |-> 0]

\* the usage_info extract_usage_from_response builds: zeros, overwritten
\* `if 'usage' in response`; timestamp, aip_arn, request_id and model_id,
\* which no summary reads, are left out
extract_usage_from_response(response, tenant_id) ==
    LET has == response.usage # <<>>
        input_tokens == IF has THEN OptGet(response.usage[1].inputTokens, 0)
                        ELSE 0
        output_tokens == IF has THEN OptGet(response.usage[1].outputTokens, 0)
                         ELSE 0
    IN  [tenant_id |-> tenant_id,
         input_tokens |-> input_tokens,
         output_tokens |-> output_tokens,
         total_tokens |-> IF has THEN input_tokens + output_tokens ELSE 0,
         latency_ms |-> 0]

\* Python's sum over a list of numbers
RECURSIVE SumSeq(_)
SumSeq(s) == IF s = <<>> THEN 0 ELSE Head(s) + SumSeq(Tail(s))

\* get_tenant_usage_summary(tenant_id) on the usage data u
get_tenant_usage_summary(u, tenant_id) ==
    LET tenant_usage == SelectSeq(u, LAMBDA x : x.tenant_id = tenant_id)
        n == Len(tenant_usage)
    IN  IF n = 0
        THEN [tenant_id |-> tenant_id, total_requests |-> 0,
              total_input_tokens |-> 0, total_output_tokens |-> 0,
              total_tokens |-> 0, avg_latency_ms |-> 0]
        ELSE [tenant_id |-> tenant_id,
              total_requests |-> n,
              total_input_tokens |->
                  SumSeq([i \in 1..n |-> tenant_usage[i].input_tokens]),
              total_output_tokens |->
                  SumSeq([i \in 1..n |-> tenant_usage[i].output_tokens]),
              total_tokens |->
                  SumSeq([i \in 1..n |-> tenant_usage[i].total_tokens]),
              avg_latency_ms |->
                  SumSeq([i \in 1..n |-> tenant_usage[i].latency_ms]) \div n]

\* get_all_usage_summary() on the usage data u; tenant_breakdown is the
\* dict from each tenant of the data to its summary
get_all_usage_summary(u) ==
    LET n == Len(u)
        unique_tenants == {u[i].tenant_id : i \in 1..n}
    IN  [total_requests |-> n,
         total_input_tokens |-> SumSeq([i \in 1..n |-> u[i].input_tokens]),
         total_output_tokens |-> SumSeq([i \in 1..n |-> u[i].output_tokens]),
         total_tokens |-> SumSeq([i \in 1..n |-> u[i].total_tokens]),
         unique_tenants |-> Cardinality(unique_tenants),
         tenant_breakdown |->
             [t \in unique_tenants |-> get_tenant_usage_summary(u, t)]]

\* tracker.extract_usage_from_response(response, tenant_id, aip_arn)
ExtractUsage(response, tenant_id) ==
    /\ Len(usage_data) < MaxRequests
    /\ usage_data' = Append(usage_data,
                            extract_usage_from_response(response, tenant_id))
    /\ UNCHANGED <<service, inference_profiles, script>>

\* tracker.clear_usage_data()
ClearUsage ==
    /\ usage_data' = <<>>
    /\ UNCHANGED <<service, inference_profiles, script>>

InitTracker ==
    /\ CallInit(AllClients, "idle", NoArgs)

NextTracker ==
    \/ \E response \in Responses, tenant_id \in Tenants :
           ExtractUsage(response, tenant_id)
    \/ ClearUsage

SpecTracker == InitTracker /\ [][NextTracker]_vars

----------------------------------------------------------------------------
(* Vocabulary of the properties *)

\* worker p has answered a request for `action` that passed validation
Answered(p, action) == pc[p] = "done" /\ args[p].action = action

\* the requests of p and q name the same (team_tag, model_type, version)
SameTriple(p, q) ==
    /\ args[p].team_tag = args[q].team_tag
    /\ args[p].model_type = args[q].model_type
    /\ args[p].version = args[q].version

\* the response is the Conflict of a duplicate create
IsConflict(r, team_tag) ==
    /\ r.status = 400
    /\ r.message = "Profile already exists for team " \o team_tag

\* p's request made the external call `op`
Called(p, op) == \E i \in 1..Len(calls[p]) : calls[p][i].op = op

----------------------------------------------------------------------------
(* Properties of the profile registry *)

\* C1: in every reachable state the table holds at most one item per
\* (team_tag, model_type, version) triple.
C1_OneRecordPerTriple ==
    \A i \in table, j \in table :
        (i.team_tag = j.team_tag /\ i.model_type = j.model_type
            /\ i.version = j.version) => i = j

\* C1 witness: a second create of a recorded triple was turned away, and the
\* table holds the record of the first.
C1_Witness ==
    \E p \in Procs :
        /\ Answered(p, "create")
        /\ IsConflict(resp[p], args[p].team_tag)
        /\ RecordsOf(table, args[p].team_tag, args[p].model_type,
                     args[p].version) # {}

\* C2 as stated: of two creates of one triple that both arrived while the
\* key was Absent (no delete of the key since) and that no failing external
\* call ended, one returns success and the other the Conflict.
C2_Original ==
    \A p \in Procs, q \in Procs :
        (/\ p # q
         /\ Answered(p, "create") /\ Answered(q, "create")
         /\ SameTriple(p, q)
         /\ fresh[p] /\ fresh[q]
         /\ resp[p].status # 500 /\ resp[q].status # 500)
        => \/ resp[p].status = 200 /\ IsConflict(resp[q], args[q].team_tag)
           \/ resp[q].status = 200 /\ IsConflict(resp[p], args[p].team_tag)

\* C2 (amended): two creates of one triple that both arrived while the key
\* was Absent (no delete of the key since) never both succeed; and when both
\* resolve a model and reach the conditional write, and the store answers
\* both (no response is a 500), one returns success and the other the
\* Conflict.
C2_ConcurrentCreatesOneWins ==
    \A p \in Procs, q \in Procs :
        (/\ p # q
         /\ Answered(p, "create") /\ Answered(q, "create")
         /\ SameTriple(p, q)
         /\ fresh[p] /\ fresh[q])
        => /\ ~(resp[p].status = 200 /\ resp[q].status = 200)
           /\ (/\ Called(p, "dynamodb.put_item") /\ resp[p].status # 500
               /\ Called(q, "dynamodb.put_item") /\ resp[q].status # 500)
              => \/ resp[p].status = 200 /\ IsConflict(resp[q], args[q].team_tag)
                 \/ resp[q].status = 200 /\ IsConflict(resp[p], args[p].team_tag)

\* C2 witness: two creates of one triple raced from Absent; one succeeded,
\* the other had provisioned its own profile and met the Conflict.
C2_Witness ==
    \E p \in Procs, q \in Procs :
        /\ p # q
        /\ Answered(p, "create") /\ Answered(q, "create")
        /\ SameTriple(p, q)
        /\ fresh[p] /\ fresh[q]
        /\ resp[p].status = 200
        /\ IsConflict(resp[q], args[q].team_tag)
        /\ loc[q].profile_arn # 0

\* C3: a create whose put_item answers while the table records its triple
\* (a second create, no delete in between) gets the Conflict, a 400, and
\* leaves the table, so also the first create's record, as it was.
C3_SecondCreateConflicts ==
    [][\A p \in Procs :
        (/\ pc[p] = "create_put" /\ pc'[p] = "done"
         /\ RecordsOf(table, args[p].team_tag, args[p].model_type,
                      args[p].version) # {})
        => /\ table' = table
           /\ resp'[p].status # 200
           /\ resp'[p].status # 500 => IsConflict(resp'[p], args[p].team_tag)
      ]_vars

\* C3 witness: a create arrived when its triple was recorded (not fresh), was
\* answered with the Conflict, and the earlier record is in the table.
C3_Witness ==
    \E p \in Procs :
        /\ Answered(p, "create")
        /\ ~fresh[p]
        /\ IsConflict(resp[p], args[p].team_tag)
        /\ \E i \in RecordsOf(table, args[p].team_tag, args[p].model_type,
                              args[p].version) :
              i.profile_id # loc[p].profile_arn

\* C4: when a create returns success, a get of the same triple that reads
\* the table next is answered 200 with one record, whose team_tag,
\* model_type and version are the request's and whose profile_id is the
\* inference profile ARN the create returned.
C4_CreateVisibleToGet ==
    [][\A p \in Procs :
        (/\ pc[p] = "create_put" /\ pc'[p] = "done"
         /\ resp'[p].status = 200)
        => LET r == GetResponse(
                        handle_get_profile(table', args[p].team_tag,
                            args[p].model_type, args[p].version),
                        args[p].team_tag)
           IN  /\ r.status = 200
               /\ Cardinality(r.item) = 1
               /\ \A i \in r.item :
                     /\ i.team_tag = args[p].team_tag
                     /\ i.model_type = args[p].model_type
                     /\ i.version = args[p].version
                     /\ i.profile_id = resp'[p].arn
                     /\ i.profile_id \in profiles'
      ]_vars

\* C4 witness: a create returned 200 with the ARN of the profile it made,
\* and the table records the triple.
C4_Witness ==
    \E p \in Procs :
        /\ Answered(p, "create")
        /\ resp[p].status = 200
        /\ resp[p].kind = "inferenceProfileArn"
        /\ resp[p].arn = loc[p].profile_arn
        /\ RecordsOf(table, args[p].team_tag, args[p].model_type,
                     args[p].version) # {}

\* the message of the 500 for a failed call of the operation
FailureOf(op) == ErrorResponse(ClientError(op))

\* C5: when create_inference_profile fails, the create ends there with an
\* error: the step leaves the table and the provider's profiles unchanged
\* and the request has made, and will make, no put_item call.
C5_ProvisionFailureWritesNothing ==
    [][\A p \in Procs :
        (/\ pc[p] = "create_bedrock"
         /\ resp'[p] = FailureOf("CreateInferenceProfile"))
        => /\ table' = table
           /\ profiles' = profiles
           /\ pc'[p] = "done"
           /\ resp'[p].status = 500
           /\ \A i \in 1..Len(calls'[p]) : calls'[p][i].op # "dynamodb.put_item"
      ]_vars

\* C5 witness: a create of an Absent key ended with the provider's failure
\* and the key has no item.
C5_Witness ==
    \E p \in Procs :
        /\ Answered(p, "create")
        /\ fresh[p]
        /\ resp[p] = FailureOf("CreateInferenceProfile")
        /\ Called(p, "bedrock.create_inference_profile")
        /\ GetItem(table, args[p].team_tag,
                   SortKey(args[p].model_type, args[p].version)) = {}

\* C6: (a) every step that removes an item from the table is the
\* delete_item step of a delete that has deprovisioned that item's
\* profile_id, which names no profile any more; (b) a delete whose
\* delete_inference_profile call fails ends with a 500, and the step leaves
\* the table and the provider's profiles as they were.
C6_DeprovisionBeforeRemoval ==
    [][/\ \A i \in table \ table' :
            \E p \in Procs :
                /\ pc[p] = "delete_item" /\ pc'[p] = "done"
                /\ args[p].action = "delete"
                /\ \E n \in 1..Len(calls[p]) :
                      calls[p][n] = [op |-> "bedrock.delete_inference_profile",
                                     id |-> i.profile_id]
                /\ i.profile_id \notin profiles
       /\ \A p \in Procs :
            (pc[p] = "delete_bedrock" /\ pc'[p] = "done")
            => /\ resp'[p] = FailureOf("DeleteInferenceProfile")
               /\ resp'[p].status = 500
               /\ table' = table
               /\ profiles' = profiles
      ]_vars

\* C6 witness: of two deletes that read the same record, one deprovisioned
\* the profile and removed the item; the other's deprovision call failed.
C6_Witness ==
    \E p \in Procs, q \in Procs :
        /\ Answered(p, "delete") /\ resp[p].status = 200
        /\ Answered(q, "delete")
        /\ resp[q] = FailureOf("DeleteInferenceProfile")
        /\ loc[p].item # {} /\ loc[p].item = loc[q].item

\* C6 witness of the abort: the deprovision call of a delete failed and the
\* record the delete read is still in the table, its profile still there.
C6_AbortWitness ==
    \E q \in Procs :
        /\ Answered(q, "delete")
        /\ resp[q] = FailureOf("DeleteInferenceProfile")
        /\ loc[q].item # {} /\ loc[q].item \subseteq table
        /\ loc[q].profile_arn \in profiles

\* C7: when a delete returns success the key is Absent: the table has no
\* item under it, a get of the triple that reads the table next is answered
\* 404, and the profile the record named does not exist at the provider.
C7_DeleteLeavesAbsent ==
    [][\A p \in Procs :
        (/\ pc[p] = "delete_item" /\ pc'[p] = "done"
         /\ resp'[p].status = 200)
        => /\ resp'[p].kind = "deleted"
           /\ GetItem(table', args[p].team_tag,
                      SortKey(args[p].model_type, args[p].version)) = {}
           /\ GetResponse(
                  handle_get_profile(table', args[p].team_tag,
                      args[p].model_type, args[p].version),
                  args[p].team_tag).status = 404
           /\ \A i \in loc[p].item : i.profile_id \notin profiles'
      ]_vars

\* C7 witness: a delete that read a record returned {"deleted": true}.
C7_Witness ==
    \E p \in Procs :
        /\ Answered(p, "delete")
        /\ resp[p].status = 200 /\ resp[p].kind = "deleted"
        /\ loc[p].item # {}
        /\ Called(p, "dynamodb.delete_item")

\* C8: a delete whose read finds no item under its key is answered 404,
\* and the request makes no delete_inference_profile call.
C8_DeleteAbsentIs404 ==
    [][\A p \in Procs :
        (/\ pc[p] = "delete_get" /\ pc'[p] = "done"
         /\ GetItem(table, args[p].team_tag,
                    SortKey(args[p].model_type, args[p].version)) = {}
         /\ resp'[p] # FailureOf("GetItem"))
        => /\ resp'[p].status = 404
           /\ \A i \in 1..Len(calls'[p]) :
                 calls'[p][i].op # "bedrock.delete_inference_profile"
      ]_vars

\* C9: a use whose read finds no item under its key is answered 404, and
\* the request makes no invoke_model call.
C9_UseAbsentIs404 ==
    [][\A p \in Procs :
        (/\ pc[p] = "use_get" /\ pc'[p] = "done"
         /\ GetItem(table, args[p].team_tag,
                    SortKey(args[p].model_type, args[p].version)) = {}
         /\ resp'[p] # FailureOf("GetItem"))
        => /\ resp'[p].status = 404
           /\ \A i \in 1..Len(calls'[p]) :
                 calls'[p][i].op # "bedrock_runtime.invoke_model"
      ]_vars

\* C10: a get whose read of the table answers returns 200 with the stored
\* record exactly when the table records the requested (team_tag,
\* model_type, version), and 404 exactly when it records none.
C10_GetReturnsRecordOfTriple ==
    [][\A p \in Procs :
        (/\ pc[p] = "get_item" /\ pc'[p] = "done"
         /\ resp'[p] # FailureOf("GetItem"))
        => LET stored == RecordsOf(table, args[p].team_tag,
                                   args[p].model_type, args[p].version)
           IN  /\ resp'[p].status \in {200, 404}
               /\ resp'[p].status = 200 <=> stored # {}
               /\ resp'[p].status = 200 => resp'[p].item = ProfileOf(stored)
      ]_vars

----------------------------------------------------------------------------
(* What the code does where C8, C9 and C10 do not hold *)

\* a delete or a use of a key with no item ends in the ValueError branch of
\* the route: a 400, and no call to Bedrock
AbsentKeyIs400 ==
    [][\A p \in Procs :
        (/\ pc[p] \in {"delete_get", "use_get"} /\ pc'[p] = "done"
         /\ GetItem(table, args[p].team_tag,
                    SortKey(args[p].model_type, args[p].version)) = {}
         /\ resp'[p] # FailureOf("GetItem"))
        => /\ resp'[p].status = 400
           /\ Len(calls'[p]) = 1
      ]_vars

\* a get answers by the primary key (team_tag, model_type_version): 200 with
\* the item stored under it, 404 when there is none
GetAnswersByKey ==
    [][\A p \in Procs :
        (/\ pc[p] = "get_item" /\ pc'[p] = "done"
         /\ resp'[p] # FailureOf("GetItem"))
        => LET stored == GetItem(table, args[p].team_tag,
                                 SortKey(args[p].model_type, args[p].version))
           IN  /\ resp'[p].status \in {200, 404}
               /\ resp'[p].status = 200 <=> stored # {}
               /\ resp'[p].status = 200 => resp'[p].item = ProfileOf(stored)
      ]_vars

----------------------------------------------------------------------------
(* Properties of the validator, the resolver and the sanitizer *)

\* a value of the body that is absent, null or empty
Absent(d, k) == Falsy(DictGet(d, k))

\* the requests C12 says are rejected
MustReject(d) ==
    \/ Absent(d, "team_tag") \/ d.team_tag \notin VALID_TEAMS
    \/ Absent(d, "action") \/ d.action \notin VALID_ACTIONS
    \/ Absent(d, "model_type")
    \/ d.action = "use" /\ Absent(d, "user_message")

\* C12: the route rejects a JSON body in validation (a 400, no handler
\* entered, no external call) if and only if team_tag is missing or not a
\* valid team, or action is missing or not a valid action, or model_type is
\* missing, or the action is use and user_message is missing; every other
\* body is accepted with its team_tag, action and model_type, whatever the
\* model_type is and with or without a user_message.
C12_ValidateRejectsExactly ==
    [][\A p \in Procs :
        (pc[p] = "idle" /\ pc'[p] # "idle" /\ data'[p].json)
        => LET d == data'[p]
               rejected == args'[p] = NoArgs
           IN  /\ rejected <=> MustReject(d)
               /\ rejected => /\ resp'[p].status = 400
                               /\ pc'[p] = "done"
                               /\ calls'[p] = <<>>
               /\ ~rejected => /\ args'[p].team_tag = d.team_tag
                                /\ args'[p].action = d.action
                                /\ args'[p].model_type = d.model_type
      ]_vars

\* C12 witness: a create for a model_type the registry does not know, sent
\* without a user_message, passed validation and entered its handler.
C12_Witness ==
    \E p \in Procs :
        /\ data[p].json
        /\ data[p].model_type = "gpt"
        /\ data[p].user_message = Missing
        /\ args[p].action = "create"
        /\ args[p].model_type = "gpt"
        /\ Called(p, "sts.get_caller_identity")

\* C13: a request that passes validation is handled with the version of
\* its body when the body has one and with the configured default version
\* otherwise, and that version is defined (not None).
C13_VersionDefined ==
    [][\A p \in Procs :
        (pc[p] = "idle" /\ pc'[p] # "idle" /\ args'[p] # NoArgs)
        => LET d == data'[p]
           IN  /\ d.version = Missing => args'[p].version = DEFAULT_VERSION
               /\ d.version # Missing => args'[p].version = d.version
               /\ args'[p].version # None
      ]_vars

\* what the code does: the version is the body's, the default only when
\* the key is absent, and None when the body holds a null
VersionIsBodysOrDefault ==
    [][\A p \in Procs :
        (pc[p] = "idle" /\ pc'[p] # "idle" /\ args'[p] # NoArgs)
        => LET d == data'[p]
           IN  /\ d.version = Missing => args'[p].version = DEFAULT_VERSION
               /\ d.version # Missing => args'[p].version = d.version
               /\ args'[p].version = None <=> d.version = None
      ]_vars

\* a create with a null version resolves its model by the team default and
\* then fails in sanitize_profile_name, a 500
NullVersionCreateFails ==
    \E p \in Procs :
        /\ Answered(p, "create")
        /\ data[p].version = None
        /\ resp[p].status = 500
        /\ resp[p].message = "'NoneType' object has no attribute 'replace'"

\* the request of p names a pair of the registry
Registered(p) == <<args[p].model_type, args[p].version>> \in DOMAIN MODEL_REGISTRY

\* the team of p's request has a default pair that the registry holds
HasUsableDefault(p) ==
    /\ args[p].team_tag \in DOMAIN TEAM_DEFAULT_MODELS
    /\ TEAM_DEFAULT_MODELS[args[p].team_tag] \in DOMAIN MODEL_REGISTRY

\* the resource identifier of a provider model id: region, account, model id
ArnOf(model_id) ==
    "arn:aws:bedrock:" \o AWS_REGION \o ":" \o ACCOUNT_ID
        \o ":inference-profile/" \o model_id

\* C14: for a (model_type, version) of the registry, get_model_arn (once
\* the identity lookup has answered) returns the model id registered for
\* that pair and the identifier built from the region, the account id and
\* that model id, for every team_tag, also one with a default pair.
C14_RegisteredPairResolves ==
    [][\A p \in Procs :
        (/\ pc[p] = "create_sts" /\ pc'[p] # pc[p] /\ Registered(p)
         /\ resp'[p] # FailureOf("GetCallerIdentity"))
        => LET model_id == MODEL_REGISTRY[<<args[p].model_type, args[p].version>>]
           IN  /\ pc'[p] = "create_bedrock"
               /\ loc'[p].model_id = model_id
               /\ loc'[p].model_arn = ArnOf(model_id)
      ]_vars

\* C14 witness: teama, whose default is claude 3.5, asked for the
\* registered nova 1.0 and got the model id of nova.
C14_Witness ==
    \E p \in Procs :
        /\ pc[p] = "create_bedrock"
        /\ args[p].team_tag = "teama"
        /\ args[p].model_type = "nova" /\ args[p].version = "1.0"
        /\ TEAM_DEFAULT_MODELS["teama"] # <<"nova", "1.0">>
        /\ loc[p].model_id = "amazon.nova-1"
        /\ loc[p].model_arn = ArnOf("amazon.nova-1")

\* C15: for a (model_type, version) that is not in the registry and a team
\* whose default pair is, resolve (get_model_arn of utils.py and of app1.py,
\* once the identity lookup has answered) returns the model id of the
\* team's default pair and the identifier built from it, as a pair.
C15_TeamDefaultResolves ==
    [][\A p \in Procs :
        (/\ pc[p] \in {"create_sts", "app1_get_model_arn"} /\ pc'[p] # pc[p]
         /\ ~Registered(p) /\ HasUsableDefault(p)
         /\ resp'[p].status # 500)
        => LET model_id == MODEL_REGISTRY[TEAM_DEFAULT_MODELS[args[p].team_tag]]
           IN  /\ pc'[p] \in {"create_bedrock", "app1_resolved"}
               /\ loc'[p].model_id = model_id
               /\ loc'[p].model_arn = ArnOf(model_id)
      ]_vars

\* what holds: get_model_arn of utils.py returns the pair of the default
UtilsTeamDefaultResolves ==
    [][\A p \in Procs :
        (/\ pc[p] = "create_sts" /\ pc'[p] # pc[p]
         /\ ~Registered(p) /\ HasUsableDefault(p)
         /\ resp'[p].status # 500)
        => LET model_id == MODEL_REGISTRY[TEAM_DEFAULT_MODELS[args[p].team_tag]]
           IN  /\ pc'[p] = "create_bedrock"
               /\ loc'[p].model_id = model_id
               /\ loc'[p].model_arn = ArnOf(model_id)
      ]_vars

\* utils.get_model_arn resolved an unregistered pair by the team's default
UtilsTeamDefaultWitness ==
    \E p \in Procs :
        /\ pc[p] = "create_bedrock"
        /\ ~Registered(p) /\ HasUsableDefault(p)
        /\ loc[p].model_id = "anthropic.claude-3-5"

\* what app1.py does there: the bare model id comes back, the unpacking
\* into (model_id, model_arn) fails and the request ends with a 400
App1TeamDefaultFails ==
    [][\A p \in Procs :
        (/\ pc[p] = "app1_get_model_arn" /\ pc'[p] # pc[p]
         /\ ~Registered(p) /\ HasUsableDefault(p)
         /\ resp'[p].status # 500)
        => /\ pc'[p] = "done"
           /\ resp'[p] = create_error_response("Invalid request data", 400)
      ]_vars

\* C16: for a (model_type, version) that is not in the registry,
\* get_model_arn (once the identity lookup has answered) fails with the
\* error that names the pair when no team is given, when the team has no
\* default and when the team's default pair is not in the registry; the
\* create ends there: the step changes neither the table nor the
\* provider's profiles, and the request has made no provisioning call and
\* no write.
C16_UnresolvableIsNotFound ==
    [][\A p \in Procs :
        (/\ pc[p] = "create_sts" /\ pc'[p] # pc[p]
         /\ ~Registered(p) /\ ~HasUsableDefault(p)
         /\ resp'[p] # FailureOf("GetCallerIdentity"))
        => /\ pc'[p] = "done"
           /\ resp'[p].kind = "error"
           /\ resp'[p].message =
                  "Model ARN not found for model_type: " \o Str(args[p].model_type)
                      \o ", version: " \o Str(args[p].version)
           /\ table' = table /\ profiles' = profiles /\ next_arn' = next_arn
           /\ \A i \in 1..Len(calls'[p]) :
                 calls'[p][i].op \notin {"bedrock.create_inference_profile",
                                         "dynamodb.put_item"}
      ]_vars

\* C16 witness: creates for an unregistered pair ended with the error for
\* no team, for a team without a default and for a team whose default pair
\* is not registered (one of them in each behaviour), with only the
\* identity lookup called.
C16_Witness ==
    \E p \in Procs :
        /\ pc[p] = "done"
        /\ args[p].team_tag = "teamc"
        /\ "teamc" \in DOMAIN TEAM_DEFAULT_MODELS
        /\ ~Registered(p)
        /\ resp[p].message = ModelNotFound(args[p].model_type, args[p].version)
        /\ Len(calls[p]) = 1
        /\ table = {} /\ profiles = {}

\* the two other cases of C16: no team, and a team that has no default
C16_NoTeamWitness ==
    \E p \in Procs :
        /\ pc[p] = "done"
        /\ args[p].team_tag = None
        /\ resp[p].message = ModelNotFound(args[p].model_type, args[p].version)

C16_NoDefaultWitness ==
    \E p \in Procs :
        /\ pc[p] = "done"
        /\ args[p].team_tag = "teamb"
        /\ resp[p].message = ModelNotFound(args[p].model_type, args[p].version)

\* the provider's constraint on a profile name: the whole string matches
\* ([0-9a-zA-Z][ _-]?)+
RECURSIVE MatchesNamePattern(_)
MatchesNamePattern(s) ==
    /\ s # ""
    /\ Head(s) \in Alnum
    /\ LET rest == Tail(s)
       IN  \/ rest = ""
           \/ MatchesNamePattern(rest)
           \/ /\ Head(rest) \in Separators
              /\ (Tail(rest) = "" \/ MatchesNamePattern(Tail(rest)))

\* the last character of a string that is not empty
LastChar(s) == SubSeq(s, Len(s), Len(s))

\* s has two separator characters in a row
RECURSIVE HasDoubleSeparator(_)
HasDoubleSeparator(s) ==
    /\ Len(s) >= 2
    /\ \/ Head(s) \in Separators /\ Head(Tail(s)) \in Separators
       \/ HasDoubleSeparator(Tail(s))

\* C17: every name sanitize_profile_name returns matches the provider's
\* pattern ([0-9a-zA-Z][ _-]?)+ : it is not empty, starts with a letter or
\* a digit and has no two separators in a row.
C17_NameMatchesPattern ==
    \A p \in Procs :
        loc[p].profile_name # None
        => /\ MatchesNamePattern(loc[p].profile_name)
           /\ loc[p].profile_name # ""
           /\ Head(loc[p].profile_name) \in Alnum
           /\ ~HasDoubleSeparator(loc[p].profile_name)

\* what holds of every name: it is made of letters, digits and the three
\* separators only
RECURSIVE OnlyNameCharacters(_)
OnlyNameCharacters(s) ==
    s = "" \/ (Head(s) \in Alnum \cup Separators /\ OnlyNameCharacters(Tail(s)))

NameHasOnlyNameCharacters ==
    \A p \in Procs :
        loc[p].profile_name # None => OnlyNameCharacters(loc[p].profile_name)

\* a create that passed validation handed the provider a name with two
\* separators in a row
DoubleSeparatorNameProvisioned ==
    \E p \in Procs :
        /\ data[p].json /\ args[p].action = "create"
        /\ Called(p, "bedrock.create_inference_profile")
        /\ HasDoubleSeparator(loc[p].profile_name)

\* C18: no name sanitize_profile_name returns ends in '_' or '-', and
\* the name of ("team-a", "claude", "3.5") is "team-a_claude_3_5".
C18_NoTrailingSeparator ==
    \A p \in Procs :
        loc[p].profile_name # None
        => /\ loc[p].profile_name # ""
              => LastChar(loc[p].profile_name) \notin {"_", "-"}
           /\ (/\ args[p].team_tag = "team-a" /\ args[p].model_type = "claude"
               /\ args[p].version = "3.5")
              => loc[p].profile_name = "team-a_claude_3_5"

\* C18 witness: sanitize_profile_name("team-a", "claude", "3.5") returned
\* "team-a_claude_3_5".
C18_Witness ==
    \E p \in Procs :
        /\ pc[p] = "sanitized"
        /\ args[p].team_tag = "team-a" /\ args[p].model_type = "claude"
        /\ args[p].version = "3.5"
        /\ loc[p].profile_name = "team-a_claude_3_5"

\* a version that ends in '.' and '-': the separators at the end were
\* stripped
C18_StrippedWitness ==
    \E p \in Procs :
        /\ pc[p] = "sanitized"
        /\ args[p].team_tag = "team-a" /\ args[p].model_type = "a"
        /\ args[p].version = ".-"
        /\ loc[p].profile_name = "team-a_a"

----------------------------------------------------------------------------
(* Properties of the error boundary and of the records *)

\* the operations of the external clients
Operations ==
    {"GetCallerIdentity", "CreateInferenceProfile", "PutItem", "GetItem",
     "DeleteInferenceProfile", "DeleteItem", "InvokeModel"}

\* str(e) of the exceptions that are no ValueError
ExceptionTexts ==
    {ClientError(op).msg : op \in Operations}
    \cup {"Bedrock client not available", "DynamoDB client not available",
          "Bedrock Runtime client not available",
          "'NoneType' object has no attribute 'replace'"}

\* C19: a response that reports a failure other than a validation failure
\* (a 500) carries one fixed message, the same for every failure, which is
\* not the text of the exception.
C19_GenericServerError ==
    \A p \in Procs, q \in Procs :
        (resp[p].status = 500 /\ resp[q].status = 500)
        => /\ resp[p].message = resp[q].message
           /\ resp[p].message \notin ExceptionTexts

\* what the code does: the message of a 500 is str(e) of the exception
ServerErrorEchoesException ==
    \A p \in Procs : resp[p].status = 500 => resp[p].message \in ExceptionTexts

\* two requests failed in different calls, and their 500s differ
DistinctServerErrors ==
    \E p \in Procs, q \in Procs :
        /\ resp[p] = FailureOf("GetItem")
        /\ resp[q] = FailureOf("CreateInferenceProfile")
        /\ resp[p].status = 500 /\ resp[q].status = 500
        /\ resp[p].message # resp[q].message

\* C20: in every step (a) an item that stays under its key keeps all its
\* field values; (b) an item appears only by the put_item step of a create
\* that returns success, and it holds that create's triple and the ARN
\* the create returns; (c) an item disappears only by the delete_item step
\* of a delete of its key that returns success.
C20_NoUpdateInPlace ==
    [][/\ \A i \in table, j \in table' :
            (\/ /\ i.team_tag = j.team_tag
                /\ i.model_type_version = j.model_type_version
             \/ /\ i.team_tag = j.team_tag
                /\ i.model_type = j.model_type /\ i.version = j.version)
            => i = j
       /\ \A j \in table' \ table :
            \E p \in Procs :
                /\ pc[p] = "create_put" /\ pc'[p] = "done"
                /\ args[p].action = "create"
                /\ resp'[p].status = 200
                /\ j.team_tag = args[p].team_tag
                /\ j.model_type = args[p].model_type
                /\ j.version = args[p].version
                /\ j.profile_id = resp'[p].arn
       /\ \A i \in table \ table' :
            \E p \in Procs :
                /\ pc[p] = "delete_item" /\ pc'[p] = "done"
                /\ args[p].action = "delete"
                /\ resp'[p].status = 200
                /\ i.team_tag = args[p].team_tag
                /\ i.model_type_version =
                       SortKey(args[p].model_type, args[p].version)
      ]_vars

\* C20 witness: the record a create wrote is in the table with the ARN
\* that create returned, after a second create of its key, which had
\* provisioned another profile, was turned away with the Conflict.
C20_Witness ==
    \E p \in Procs, q \in Procs :
        /\ Answered(p, "create") /\ resp[p].status = 200
        /\ Answered(q, "create") /\ IsConflict(resp[q], args[q].team_tag)
        /\ SameKey(p, q)
        /\ loc[q].profile_arn \notin {0, resp[p].arn}
        /\ \E i \in table :
              /\ i = ProfileItem(args[p].team_tag, args[p].model_type,
                                 args[p].version, resp[p].arn, loc[p].model_id)
              /\ i.profile_id # loc[q].profile_arn

\* a delete removed the record of its key and left another key's record
C20_DeleteWitness ==
    \E p \in Procs :
        /\ Answered(p, "delete") /\ resp[p].status = 200
        /\ table # {}

----------------------------------------------------------------------------
(* Properties of the round trip create, get, delete, get *)

\* the table and the provider's profiles when the client starts: what the
\* earlier create, if there was one, has left
TableBefore ==
    IF resp[Other].status = 200
    THEN {ProfileItem(args[Other].team_tag, args[Other].model_type,
                      args[Other].version, resp[Other].arn, loc[Other].model_id)}
    ELSE {}

ProfilesBefore ==
    IF loc[Other].profile_arn = 0 THEN {} ELSE {loc[Other].profile_arn}

\* so it is: until the client sends its first request, they are the table
\* and the profiles
BeforeIsTheStart ==
    (pc[Other] \in {"idle", "done"} /\ Position = 0)
    => (table = TableBefore /\ profiles = ProfilesBefore)

\* the answers of the round trip, and the stores after it
RoundTripAnswers ==
    /\ Position = 1 => resp[Caller].status = 200
    /\ Position = 2 => /\ resp[Caller].status = 200
                       /\ resp[Caller].item # {}
                       /\ \A i \in resp[Caller].item :
                             /\ i.team_tag = args[Caller].team_tag
                             /\ i.model_type = args[Caller].model_type
                             /\ i.version = args[Caller].version
    /\ Position = 3 => /\ resp[Caller].status = 200
                       /\ resp[Caller].kind = "deleted"
    /\ Position = 4 => /\ resp[Caller].status = 404
                       /\ table = TableBefore
                       /\ profiles = ProfilesBefore

\* C11: for a triple that the table does not record when the client
\* starts, and with no failing external call (no answer is a 500), create,
\* get, delete, get are answered 200, 200 with the record of the triple,
\* 200 with {"deleted": true} and 404, and after the fourth answer the
\* table and the provider's profiles are what they were at the start.
C11_RoundTrip ==
    (pc[Caller] = "done" /\ resp[Caller].status # 500) => RoundTripAnswers

\* what holds: the same, for a triple under whose primary key
\* (team_tag, "model_type#version") the table holds no item at the start
RoundTripOfFreeKey ==
    (/\ pc[Caller] = "done" /\ resp[Caller].status # 500
     /\ GetItem(TableBefore, args[Caller].team_tag,
                SortKey(args[Caller].model_type, args[Caller].version)) = {})
    => RoundTripAnswers

\* a round trip ran to its end beside the record of another key
RoundTripWitness ==
    /\ pc[Caller] = "done" /\ Position = 4
    /\ resp[Caller].status = 404
    /\ TableBefore # {} /\ table = TableBefore

\* the create of a round trip for a triple with no record was turned away
\* with the Conflict: the record of another triple has its sort key
RoundTripCollides ==
    /\ pc[Caller] = "done" /\ Position = 1
    /\ IsConflict(resp[Caller], args[Caller].team_tag)
    /\ RecordsOf(table, args[Caller].team_tag, args[Caller].model_type,
                 args[Caller].version) = {}

----------------------------------------------------------------------------
(* Properties of the read-only operations and of the failure windows *)

\* worker p takes a step of its get or use request
ReadStep(p) ==
    /\ pc[p] \in {"get_item", "use_get", "use_invoke"}
    /\ pc'[p] # pc[p]

\* C21: every step of a get or of a use, whether it succeeds or fails,
\* leaves the table, the provider's profiles and the rest of the state
\* that outlives a request (the clients, the provider's counter) as they
\* were; and a handler starts with none of the local variables or calls of
\* the request its worker served before.
C21_GetAndUseAreReadOnly ==
    [][/\ \A p \in Procs :
            ReadStep(p) => UNCHANGED <<table, profiles, next_arn, aws_clients>>
       /\ \A p \in Procs :
            (pc[p] \in {"idle", "done"} /\ pc'[p] \notin {"idle", "done"})
            => (loc'[p] = NoLoc /\ calls'[p] = <<>>)
      ]_vars

\* C21 witness: a use was answered with the model's reply after its two
\* calls, and the record it used and the profile are still there.
C21_Witness ==
    \E p \in Procs :
        /\ Answered(p, "use") /\ resp[p].status = 200
        /\ Len(calls[p]) = 2
        /\ \E i \in table : i.profile_id = resp[p].arn /\ i.profile_id \in profiles

\* a use failed at the model invocation and a get found nothing, beside a
\* record
C21_FailureWitness ==
    \E p \in Procs, q \in Procs :
        /\ Answered(p, "use") /\ resp[p] = FailureOf("InvokeModel")
        /\ Answered(q, "get") /\ resp[q].status = 404
        /\ table # {}

\* the create of p was turned away by the conditional write
ConflictOf(p) ==
    /\ Answered(p, "create")
    /\ IsConflict(resp[p], args[p].team_tag)

\* C22: a create whose conditional write is rejected is answered with the
\* Conflict, has made no delete_inference_profile call, and leaves the
\* table as it was; the inference profile it provisioned exists from then
\* on and no item of the table refers to it.
C22_ConflictLeavesOrphan ==
    [][\A p \in Procs :
          /\ (pc[p] = "create_put" /\ pc'[p] = "done"
                /\ ~ConditionHolds(table, ProfileItem(args[p].team_tag,
                        args[p].model_type, args[p].version,
                        loc[p].profile_arn, loc[p].model_id))
                /\ resp'[p] # FailureOf("PutItem"))
             => /\ IsConflict(resp'[p], args[p].team_tag)
                /\ UNCHANGED <<table, profiles>>
          /\ ConflictOf(p)'
             => /\ ~\E i \in 1..Len(calls'[p]) :
                       calls'[p][i].op = "bedrock.delete_inference_profile"
                /\ loc'[p].profile_arn \in profiles'
                /\ \A i \in table' : i.profile_id # loc'[p].profile_arn
      ]_vars

\* C22 witness: a create got the Conflict, the profile it provisioned
\* exists, and the record under its key refers to another profile.
C22_Witness ==
    \E p \in Procs :
        /\ ConflictOf(p)
        /\ Called(p, "bedrock.create_inference_profile")
        /\ loc[p].profile_arn \in profiles
        /\ \E i \in GetItem(table, args[p].team_tag,
                            SortKey(args[p].model_type, args[p].version)) :
              i.profile_id # loc[p].profile_arn

\* the orphan outlives the record that turned its create away: that record
\* and its profile were deleted since
C22_OrphanOutlivesWitness ==
    \E p \in Procs :
        /\ ConflictOf(p)
        /\ table = {}
        /\ profiles = {loc[p].profile_arn}

\* the delete of p failed at delete_item, after its
\* delete_inference_profile succeeded
RemovalFailed(p) ==
    /\ Answered(p, "delete")
    /\ Len(calls[p]) = 3
    /\ resp[p].status # 200

\* C23: a delete whose delete_item fails after its
\* delete_inference_profile succeeded answers with that error, and its
\* last call is the failed delete_item; from then on the inference profile
\* does not exist and the item it read is in the table, with the
\* identifier of that profile.
C23_FailedRemovalLeavesRecord ==
    [][\A p \in Procs :
          RemovalFailed(p)'
          => /\ resp'[p] = FailureOf("DeleteItem")
             /\ calls'[p][3].op = "dynamodb.delete_item"
             /\ calls'[p][2] = [op |-> "bedrock.delete_inference_profile",
                                id |-> loc'[p].profile_arn]
             /\ loc'[p].profile_arn \notin profiles'
             /\ loc'[p].item # {}
             /\ loc'[p].item \subseteq table'
             /\ \A i \in loc'[p].item : i.profile_id = loc'[p].profile_arn
             /\ (pc[p] = "delete_item" => UNCHANGED <<table, profiles, next_arn>>)
      ]_vars

\* C23 witness: a delete answered 500 at delete_item; the record of its key
\* is in the table and names a profile that is gone.
C23_Witness ==
    \E p \in Procs :
        /\ RemovalFailed(p)
        /\ resp[p].status = 500
        /\ \E i \in GetItem(table, args[p].team_tag,
                            SortKey(args[p].model_type, args[p].version)) :
              i.profile_id \notin profiles

\* a later delete of that key was turned away by the provider: the record
\* stays
C23_SecondDeleteWitness ==
    \E p \in Procs, q \in Procs :
        /\ RemovalFailed(p)
        /\ Answered(q, "delete") /\ SameKey(p, q)
        /\ resp[q] = FailureOf("DeleteInferenceProfile")
        /\ loc[p].item \subseteq table

----------------------------------------------------------------------------
(* Properties of the external calls *)

\* the external calls of each action, in the order of the handler's code,
\* with the name of the operation in the error of a failed call
CallsOf(action) ==
    IF action = "create"
    THEN <<[op |-> "sts.get_caller_identity", api |-> "GetCallerIdentity"],
           [op |-> "bedrock.create_inference_profile",
            api |-> "CreateInferenceProfile"],
           [op |-> "dynamodb.put_item", api |-> "PutItem"]>>
    ELSE IF action = "get"
    THEN <<[op |-> "dynamodb.get_item", api |-> "GetItem"]>>
    ELSE IF action = "delete"
    THEN <<[op |-> "dynamodb.get_item", api |-> "GetItem"],
           [op |-> "bedrock.delete_inference_profile",
            api |-> "DeleteInferenceProfile"],
           [op |-> "dynamodb.delete_item", api |-> "DeleteItem"]>>
    ELSE IF action = "use"
    THEN <<[op |-> "dynamodb.get_item", api |-> "GetItem"],
           [op |-> "bedrock_runtime.invoke_model", api |-> "InvokeModel"]>>
    ELSE <<>>

\* the response is the error of a failed external call
IsCallFailure(r) == \E api \in Operations : r = FailureOf(api)

\* the provider is bound to refuse the call p is about to make: the
\* inference profile it names does not exist, or no profile is left to
\* hand out
BoundToFail(p) ==
    \/ pc[p] \in {"delete_bedrock", "use_invoke"} /\ loc[p].profile_arn \notin profiles
    \/ pc[p] = "create_bedrock" /\ next_arn = MaxProfiles

\* C24: the calls of a request are a prefix of the calls of its action, each
\* operation once; a request makes at most one call in a step and none
\* once it is answered; the request that is answered with the error of a
\* failed call made that call last, and is answered in the step of that
\* call; and a call that is bound to fail ends its request, in its own
\* step, with the error of that call.
C24_NoRetries ==
    [][\A p \in Procs :
          LET made == calls'[p]
              all == CallsOf(args'[p].action)
          IN  /\ Len(made) <= Len(all)
              /\ \A i \in 1..Len(made) : made[i].op = all[i].op
              /\ \A i \in 1..Len(made), j \in 1..Len(made) :
                    made[i].op = made[j].op => i = j
              /\ made # calls[p]
                 => \/ made = <<>>
                    \/ /\ pc[p] \notin {"idle", "done"}
                       /\ Len(made) = Len(calls[p]) + 1
                       /\ SubSeq(made, 1, Len(calls[p])) = calls[p]
              /\ (pc'[p] = "done" /\ IsCallFailure(resp'[p]))
                 => /\ made # <<>>
                    /\ resp'[p] = FailureOf(all[Len(made)].api)
                    /\ (pc[p] # "done" => made # calls[p])
              /\ (BoundToFail(p) /\ made # calls[p])
                 => /\ pc'[p] = "done"
                    /\ resp'[p] = FailureOf(all[Len(made)].api)
                    /\ UNCHANGED <<table, profiles>>
      ]_vars

\* C24 witness: a delete was answered with the error of its second call,
\* delete_inference_profile, after two calls.
C24_Witness ==
    \E p \in Procs :
        /\ Answered(p, "delete")
        /\ resp[p] = FailureOf("DeleteInferenceProfile")
        /\ Len(calls[p]) = 2
        /\ calls[p][2].op = "bedrock.delete_inference_profile"

\* a use was answered with the error of its second call, invoke_model
C24_UseWitness ==
    \E p \in Procs :
        /\ Answered(p, "use")
        /\ resp[p] = FailureOf("InvokeModel")
        /\ Len(calls[p]) = 2

\* the records of the triple worker p asks for
OwnRecords(p) ==
    RecordsOf(table, args[p].team_tag, args[p].model_type, args[p].version)

\* C25: when the lookup of a use finds the table recording its triple, the
\* use goes on with the profile_id of that record, which is the
\* profile_id of no record of another triple; and the invoke_model call of
\* a use names the profile_id its lookup read, whatever has become of the
\* table since.
C25_UseInvokesOwnProfile ==
    [][\A p \in Procs :
          /\ (pc[p] = "use_get" /\ pc'[p] # pc[p] /\ OwnRecords(p) # {}
                /\ resp'[p] # FailureOf("GetItem"))
             => /\ pc'[p] = "use_invoke"
                /\ \A i \in OwnRecords(p) : loc'[p].profile_arn = i.profile_id
                /\ loc'[p].item = ProfileOf(OwnRecords(p))
                /\ \A i \in table \ OwnRecords(p) :
                      i.profile_id # loc'[p].profile_arn
          /\ (pc[p] = "use_invoke" /\ pc'[p] # pc[p])
             => /\ calls'[p][Len(calls'[p])] =
                       [op |-> "bedrock_runtime.invoke_model",
                        id |-> loc[p].profile_arn]
                /\ \A i \in loc[p].item : i.profile_id = loc[p].profile_arn
                /\ resp'[p].status = 200 => resp'[p].arn = loc[p].profile_arn
      ]_vars

\* C25 witness: with the records of two triples in the table, a use of one
\* of them invoked the model with the profile_id of its own record.
C25_Witness ==
    \E p \in Procs :
        /\ Answered(p, "use") /\ resp[p].status = 200
        /\ Cardinality(table) = 2
        /\ \E i \in OwnRecords(p) :
              calls[p][2] = [op |-> "bedrock_runtime.invoke_model",
                             id |-> i.profile_id]

\* the record was deleted between the lookup and the invocation: the use
\* named the profile_id it had read, which the provider no longer knows
C25_StaleWitness ==
    \E p \in Procs :
        /\ Answered(p, "use")
        /\ Len(calls[p]) = 2
        /\ OwnRecords(p) = {}
        /\ calls[p][2].id = loc[p].profile_arn
        /\ loc[p].profile_arn \notin profiles
        /\ resp[p] = FailureOf("InvokeModel")

\* what C26 asks of the system and messages parts b of an invocation made
\* for worker p's request
OneSystemOneUser(b, p) ==
    /\ Len(b.system) = 1
    /\ b.system[1] = IF Falsy(DictGet(data[p], "system_prompt"))
                     THEN DEFAULT_SYSTEM_PROMPT
                     ELSE data[p].system_prompt
    /\ Len(b.messages) = 1
    /\ b.messages[1] = [role |-> "user", text |-> data[p].user_message]

\* C26: the body of every invoke_model call of a use holds exactly one
\* system instruction, the request's system_prompt or else the default
\* instruction, and exactly one user message, the request's user_message.
C26_OneSystemOneUserMessage ==
    \A p \in Procs :
        Called(p, "bedrock_runtime.invoke_model") => OneSystemOneUser(loc[p].body, p)

\* what holds of handle_use_profile: the body holds the one user message
\* and no system instruction; the instruction is worked out and left in
\* the local variable
BodyHasUserMessageOnly ==
    \A p \in Procs :
        Called(p, "bedrock_runtime.invoke_model")
        => /\ loc[p].body.system = <<>>
           /\ loc[p].body.messages =
                  <<[role |-> "user", text |-> data[p].user_message]>>
           /\ loc[p].system_prompt =
                  SystemPromptOrDefault(DictGet(data[p], "system_prompt"))

\* a use that gave a system_prompt was answered with the model's reply, and
\* the body of its invocation holds no system instruction
SystemPromptNotSubmitted ==
    \E p \in Procs :
        /\ Answered(p, "use") /\ resp[p].status = 200
        /\ data[p].system_prompt = "be brief"
        /\ loc[p].body.system = <<>>
        /\ Len(loc[p].body.messages) = 1

\* app1's converse_with_model, for the same requests, submits what C26 asks
App1SubmitsSystemInstruction ==
    \A p \in Procs :
        Called(p, "bedrock_runtime.invoke_model")
        => OneSystemOneUser(
               app1_converse_with_model(args[p].user_message,
                                        DictGet(data[p], "system_prompt")), p)

\* the caller-identity lookups among the calls made for p's request
IdentityLookups(p) ==
    {i \in 1..Len(calls[p]) : calls[p][i].op = "sts.get_caller_identity"}

\* C27: the step in which get_model_arn runs makes one caller-identity
\* lookup, whatever earlier requests have looked up and whether the pair
\* resolves or not; a create that has run get_model_arn has made exactly
\* one lookup, as its first call; and when the lookup fails the create is
\* answered with that error, has made no other call, and no inference
\* profile was created in that step.
C27_OneIdentityLookupPerResolve ==
    [][\A p \in Procs :
          /\ (pc[p] = "create_sts" /\ pc'[p] # pc[p])
             => /\ calls'[p] = <<[op |-> "sts.get_caller_identity", id |-> 0]>>
                /\ UNCHANGED <<profiles, next_arn, table>>
                /\ pc'[p] = "done" => resp'[p].status \in {400, 500}
          /\ (args'[p].action = "create" /\ pc'[p] \in {"create_bedrock", "create_put"})
             => IdentityLookups(p)' = {1}
          /\ (Answered(p, "create")' /\ calls'[p] # <<>>)
             => IdentityLookups(p)' = {1}
          /\ (Answered(p, "create")' /\ resp'[p] = FailureOf("GetCallerIdentity"))
             => Len(calls'[p]) = 1
          /\ (Answered(p, "create")'
                /\ resp'[p].message = ModelNotFound(args'[p].model_type,
                                                    args'[p].version))
             => Len(calls'[p]) = 1
      ]_vars

\* C27 witness: a create of a pair that does not resolve was answered
\* "Model ARN not found" after its one lookup, and the create another
\* worker served made a lookup of its own.
C27_Witness ==
    \E p \in Procs, q \in Procs :
        /\ p # q
        /\ Answered(p, "create")
        /\ resp[p].message = ModelNotFound(args[p].model_type, args[p].version)
        /\ IdentityLookups(p) = {1}
        /\ Answered(q, "create") /\ resp[q].status = 200
        /\ IdentityLookups(q) = {1}

\* the lookup failed: the create was answered 500 and nothing was
\* provisioned
C27_LookupFailsWitness ==
    \E p \in Procs :
        /\ Answered(p, "create")
        /\ resp[p] = FailureOf("GetCallerIdentity")
        /\ ~Called(p, "bedrock.create_inference_profile")
        /\ profiles = {}

----------------------------------------------------------------------------
(* Properties of the keys *)

\* worker p takes a step of the request it is serving
HandlerStep(p) == pc[p] \notin {"idle", "done"} /\ pc'[p] # pc[p]

\* item i records the triple worker p asks for
OfTriple(i, p) ==
    /\ i.team_tag = args[p].team_tag
    /\ i.model_type = args[p].model_type
    /\ i.version = args[p].version

\* item i is stored under the primary key of p's request
UnderKey(i, p) ==
    /\ i.team_tag = args[p].team_tag
    /\ i.model_type_version = SortKey(args[p].model_type, args[p].version)

\* C28: a step of a request for a triple adds and removes only records of
\* that triple, changes none, and deletes no inference profile that the
\* record of another triple refers to.
C28_RecordsIndependentPerTriple ==
    [][\A p \in Procs :
          HandlerStep(p)
          => /\ \A i \in (table \ table') \cup (table' \ table) : OfTriple(i, p)
             /\ \A i \in table :
                   i.profile_id \in profiles \ profiles' => OfTriple(i, p)
      ]_vars

\* what holds: the same per primary key (team_tag, "model_type#version")
RecordsIndependentPerKey ==
    [][\A p \in Procs :
          HandlerStep(p)
          => /\ \A i \in (table \ table') \cup (table' \ table) : UnderKey(i, p)
             /\ \A i \in table :
                   i.profile_id \in profiles \ profiles' => UnderKey(i, p)
      ]_vars

\* a delete removed the record of one key and its profile beside the record
\* of another key, which is still there with its profile
OtherRecordKeptWitness ==
    \E p \in Procs :
        /\ Answered(p, "delete") /\ resp[p].status = 200
        /\ \E i \in table : ~UnderKey(i, p) /\ i.profile_id \in profiles

\* a delete of a triple with no record removed the record and the profile
\* of another triple
DeleteRemovedOtherTriple ==
    \E p \in Procs, q \in Procs :
        /\ Answered(p, "delete") /\ resp[p].status = 200
        /\ Answered(q, "create") /\ resp[q].status = 200
        /\ ~SameTriple(p, q)
        /\ loc[p].profile_arn = resp[q].arn
        /\ table = {} /\ profiles = {}

----------------------------------------------------------------------------
(* Properties of the requests that fail validation *)

\* the route has received a body for worker p that fails validation: it is
\* no JSON, or validate_request_data raises
FailsValidation(p) ==
    /\ nreq > 0 /\ pc[p] # "idle"
    /\ (~data[p].json \/ ValidationError(data[p]) # "")

\* C29: a request that fails validation is answered 400 in the step in
\* which it arrives, with no external call made for it, and that step
\* leaves the table and the provider's profiles unchanged.
C29_RejectedRequestTouchesNothing ==
    [][/\ \A p \in Procs :
            FailsValidation(p)'
            => /\ pc'[p] = "done"
               /\ calls'[p] = <<>>
               /\ resp'[p].status = 400
               /\ (data'[p].json => resp'[p].message = ValidationError(data'[p]))
       /\ nreq' # nreq => UNCHANGED <<table, profiles, next_arn>>
      ]_vars

\* C29 witness: a use without user_message was turned away with no call,
\* while the table holds a record and the provider its profile.
C29_Witness ==
    \E p \in Procs :
        /\ FailsValidation(p)
        /\ data[p].action = "use"
        /\ resp[p].message = "user_message is required for 'use' action"
        /\ calls[p] = <<>>
        /\ table # {} /\ profiles # {}

----------------------------------------------------------------------------
(* Properties of the composite sort key *)

\* the (model_type, version) pair of the request worker p is serving, which
\* has passed validation
PairOf(p) == <<args[p].model_type, args[p].version>>

Validated(p) == args[p] # NoArgs

RECURSIVE HasHash(_)
HasHash(s) == s # "" /\ (Head(s) = "#" \/ HasHash(Tail(s)))

\* C30: a record that get returns has the model_type and the version of
\* the request, and no two requests that pass validation and name
\* different (model_type, version) pairs have the same sort key
\* "{model_type}#{version}", with or without '#' in them.
C30_SortKeyTellsPairsApart ==
    /\ \A p \in Procs :
          (Answered(p, "get") /\ resp[p].status = 200)
          => \A i \in resp[p].item :
                /\ i.model_type = args[p].model_type
                /\ i.version = args[p].version
    /\ \A p \in Procs, q \in Procs :
          (/\ Validated(p) /\ Validated(q)
           /\ SortKey(PairOf(p)[1], PairOf(p)[2])
                  = SortKey(PairOf(q)[1], PairOf(q)[2]))
          => PairOf(p) = PairOf(q)

\* what holds: the record that get returns was stored under the team and
\* the sort key of the request, and it has the pair of the request when
\* neither model type holds a '#'; requests whose model types hold no '#'
\* and whose pairs differ have different sort keys
SortKeyTellsHashFreePairsApart ==
    /\ \A p \in Procs :
          (Answered(p, "get") /\ resp[p].status = 200)
          => \A i \in resp[p].item :
                /\ i.team_tag = args[p].team_tag
                /\ SortKey(i.model_type, i.version)
                       = SortKey(args[p].model_type, args[p].version)
                /\ (~HasHash(i.model_type) /\ ~HasHash(args[p].model_type))
                   => /\ i.model_type = args[p].model_type
                      /\ i.version = args[p].version
    /\ \A p \in Procs, q \in Procs :
          (/\ Validated(p) /\ Validated(q)
           /\ SortKey(PairOf(p)[1], PairOf(p)[2])
                  = SortKey(PairOf(q)[1], PairOf(q)[2])
           /\ ~HasHash(PairOf(p)[1]) /\ ~HasHash(PairOf(q)[1]))
          => PairOf(p) = PairOf(q)

\* a get of (nova#1, 0) was answered with the record of (nova, 1#0)
GetReturnedOtherPair ==
    \E p \in Procs :
        /\ Answered(p, "get") /\ resp[p].status = 200
        /\ args[p].model_type = "nova#1" /\ args[p].version = "0"
        /\ \E i \in resp[p].item : i.model_type = "nova" /\ i.version = "1#0"

----------------------------------------------------------------------------
(* Properties of the profile names *)

\* the (team_tag, model_type, version) of the call worker p makes
TripleOf(p) == <<args[p].team_tag, args[p].model_type, args[p].version>>

RECURSIVE OnlyAlnum(_)
OnlyAlnum(s) == s = "" \/ (Head(s) \in Alnum /\ OnlyAlnum(Tail(s)))

\* C31: two calls of sanitize_profile_name for different triples that
\* create accepts return different profile names.
C31_SanitizeInjective ==
    \A p \in Procs, q \in Procs :
        (/\ loc[p].profile_name # None /\ loc[q].profile_name # None
         /\ TripleOf(p) # TripleOf(q))
        => loc[p].profile_name # loc[q].profile_name

\* what holds: the names are different when the triples are made of
\* letters and digits only
AlnumTriplesHaveDistinctNames ==
    \A p \in Procs, q \in Procs :
        (/\ loc[p].profile_name # None /\ loc[q].profile_name # None
         /\ TripleOf(p) # TripleOf(q)
         /\ \A i \in 1..3 : OnlyAlnum(TripleOf(p)[i]) /\ OnlyAlnum(TripleOf(q)[i]))
        => loc[p].profile_name # loc[q].profile_name

\* two triples of letters and digits got two names
AlnumNamesWitness ==
    \E p \in Procs, q \in Procs :
        /\ pc[p] = "sanitized" /\ pc[q] = "sanitized"
        /\ TripleOf(p) = <<"teama", "claude", "35">>
        /\ TripleOf(q) = <<"teama", "claude3", "5">>
        /\ loc[p].profile_name = "teama_claude_35"
        /\ loc[q].profile_name = "teama_claude3_5"

\* versions "3.5" and "3_5" of one model got the same name
SameNameForTwoVersions ==
    \E p \in Procs, q \in Procs :
        /\ pc[p] = "sanitized" /\ pc[q] = "sanitized"
        /\ args[p].version = "3.5" /\ args[q].version = "3_5"
        /\ loc[p].profile_name = loc[q].profile_name

----------------------------------------------------------------------------
(* Properties of the records and the inference profiles under concurrency *)

\* C32: whatever creates and deletes run beside it, the delete_item step
\* of a delete removes nothing but the item its get_item step read, and
\* the profile_id of that item is the identifier its
\* delete_inference_profile call named and the provider deleted.
C32_DeleteRemovesWhatItRead ==
    [][\A p \in Procs :
          (pc[p] = "delete_item" /\ pc'[p] # pc[p])
          => /\ table \ table' \subseteq loc[p].item
             /\ table' \subseteq table
             /\ \A i \in table \ table' :
                   /\ i.profile_id = loc[p].profile_arn
                   /\ calls[p][2] = [op |-> "bedrock.delete_inference_profile",
                                     id |-> i.profile_id]
                   /\ i.profile_id \notin profiles
      ]_vars

\* C32 witness: a delete removed the record it had read while a create of
\* the same key, which ran beside it, was turned away with the Conflict.
C32_Witness ==
    \E p \in Procs, q \in Procs :
        /\ Answered(p, "delete") /\ resp[p].status = 200
        /\ ConflictOf(q) /\ SameKey(p, q)
        /\ loc[p].item # {}
        /\ loc[p].item \cap table = {}
        /\ loc[q].profile_arn > loc[p].profile_arn

\* two deletes of one key read the same item: the provider turned the
\* second away, the first removed the item
C32_TwoDeletesWitness ==
    \E p \in Procs, q \in Procs :
        /\ p # q
        /\ Answered(p, "delete") /\ resp[p].status = 200
        /\ Answered(q, "delete") /\ resp[q] = FailureOf("DeleteInferenceProfile")
        /\ loc[p].item = loc[q].item
        /\ loc[p].profile_arn \notin profiles

\* the records that refer to the inference profile id
RecordsOfProfile(id) == {i \in table : i.profile_id = id}

\* the inference profiles of creates that are between create_inference_profile
\* and the answer of put_item
InFlight == {loc[p].profile_arn : p \in {q \in Procs : pc[q] = "create_put"}}

\* the inference profiles that exist, that no record refers to and that no
\* create in flight holds
Orphans == {id \in profiles : RecordsOfProfile(id) = {}} \ InFlight

\* the step is the end of a create of p that provisioned id and did not
\* store it: put_item failed or was turned away by its condition, or
\* store_profile_in_dynamodb found no DynamoDB client
PersistFailed(p, id) ==
    /\ args[p].action = "create"
    /\ pc[p] \in {"create_bedrock", "create_put"}
    /\ pc'[p] = "done"
    /\ loc'[p].profile_arn = id
    /\ \/ resp'[p] = FailureOf("PutItem")
       \/ IsConflict(resp'[p], args[p].team_tag)
       \/ resp'[p] = ErrorResponse(Raise("RuntimeError",
                         "DynamoDB client not available"))

\* C33: no inference profile that exists is referred to by two records; an
\* inference profile that exists is referred to by one record unless a
\* create in flight holds it or it is an orphan; and a profile becomes an
\* orphan only in the step that ends, without a record stored, the create
\* that provisioned it.
C33_OrphansOnlyFromFailedPersist ==
    [][/\ \A id \in profiles' : Cardinality(RecordsOfProfile(id)') <= 1
       /\ \A id \in profiles' \ (Orphans' \cup InFlight') :
             Cardinality(RecordsOfProfile(id)') = 1
       /\ \A id \in Orphans' \ Orphans :
             \E p \in Procs : PersistFailed(p, id)
      ]_vars

\* C33 witness: of two profiles that exist, one is referred to by one
\* record and the other is the orphan of a create that got the Conflict.
C33_Witness ==
    \E p \in Procs :
        /\ ConflictOf(p)
        /\ Orphans = {loc[p].profile_arn}
        /\ \E id \in profiles \ Orphans : Cardinality(RecordsOfProfile(id)) = 1

\* a create holds a profile in flight beside a stored one
C33_InFlightWitness ==
    /\ InFlight # {}
    /\ Orphans = {}
    /\ \E id \in profiles \ InFlight : Cardinality(RecordsOfProfile(id)) = 1

\* a failed put_item left an orphan
C33_StoreFailureWitness ==
    \E p \in Procs :
        /\ Answered(p, "create") /\ resp[p] = FailureOf("PutItem")
        /\ loc[p].profile_arn \in Orphans

\* the records whose profile_id names no inference profile that exists
Dangling == {i \in table : i.profile_id \notin profiles}

\* the step is the delete_inference_profile of a delete by p of the key of
\* record i, which p read, and it succeeded
Deprovisioned(p, i) ==
    /\ args[p].action = "delete"
    /\ pc[p] = "delete_bedrock"
    /\ pc'[p] = "delete_item"
    /\ UnderKey(i, p)
    /\ i \in loc[p].item
    /\ i.profile_id = loc[p].profile_arn

\* C34: no record dangles at the start; a record starts to dangle only in
\* the step in which a delete of its key deprovisions its inference
\* profile; it dangles until it is removed; and the delete_item that
\* succeeds leaves no record under its key, so a record dangles only while
\* a delete of its key is past its deprovision step and its removal has not
\* succeeded.
C34_DanglingOnlyAfterDeprovision ==
    /\ Dangling = {}
    /\ [][/\ \A i \in Dangling' \ Dangling :
                \E p \in Procs : Deprovisioned(p, i)
          /\ \A i \in Dangling \ Dangling' : i \notin table'
          /\ \A p \in Procs :
                (pc[p] = "delete_item" /\ pc'[p] = "done"
                                       /\ resp'[p].status = 200)
                => \A i \in table' : ~UnderKey(i, p)
         ]_vars

\* C34 witness: a delete is between its deprovision step and delete_item,
\* its record dangles, and another record names a profile that exists.
C34_Witness ==
    \E p \in Procs :
        /\ pc[p] = "delete_item"
        /\ Dangling = loc[p].item
        /\ \E i \in table \ Dangling : i.profile_id \in profiles

\* the removal failed and the record dangles after the request is answered
C34_FailedRemovalWitness ==
    \E p \in Procs :
        /\ RemovalFailed(p)
        /\ loc[p].item \subseteq Dangling
        /\ loc[p].item # {}

(* The two resolvers *)
\* p has called one of the two get_model_arn for its (model_type, version,
\* team_tag): the identity lookup is the first call of both
Resolving(p) ==
    /\ calls[p] # <<>>
    /\ calls[p][1].op = "sts.get_caller_identity"

\* what utils.get_model_arn and app1.get_model_arn return for the request
UtilsResult(p) ==
    get_model_arn(args[p].model_type, args[p].version, args[p].team_tag,
                  ACCOUNT_ID)

App1Result(p) ==
    app1_get_model_arn(args[p].model_type, args[p].version, args[p].team_tag,
                       ACCOUNT_ID)

\* both fail, or both return the same (model_id, model_arn)
SameResult(u, a) ==
    /\ a.found = u.found
    /\ u.found => /\ a.tuple
                  /\ a.value = <<u.model_id, u.model_arn>>

\* C35: for every (model_type, version, team_tag) a call resolves,
\* utils.get_model_arn and app1.get_model_arn both return the same
\* (model_id, model_arn) or both fail with the error that names the pair.
C35_ResolversEquivalent ==
    \A p \in Procs : Resolving(p) => SameResult(UtilsResult(p), App1Result(p))

\* what holds: the two agree on every input but an unregistered pair of a
\* team with a registered default, and there utils returns the pair of the
\* default while app1 returns its model id alone
ResolversAgreeButOnTeamDefault ==
    \A p \in Procs :
        Resolving(p)
        => IF ~Registered(p) /\ HasUsableDefault(p)
           THEN /\ UtilsResult(p).found /\ App1Result(p).found
                /\ ~App1Result(p).tuple
                /\ App1Result(p).value = UtilsResult(p).model_id
           ELSE SameResult(UtilsResult(p), App1Result(p))

\* the resolvers are asked for a registered pair, for an unregistered pair
\* of a team with a default, and for a pair neither resolves
ResolversAgreeWitness ==
    \E p \in Procs :
        /\ pc[p] = "app1_resolved"
        /\ Registered(p)
        /\ App1Result(p).tuple

ResolversDifferWitness ==
    \E p \in Procs :
        /\ Resolving(p)
        /\ resp[p] = create_error_response("Invalid request data", 400)
        /\ ~Registered(p) /\ HasUsableDefault(p)
        /\ UtilsResult(p).model_arn # None

(* Properties of the demo script *)
\* the step is the script's call of create_inference_profile, answered or
\* refused
CreateCalled ==
    script.pc = "create_inference_profile" /\ script'.pc # script.pc

\* the step is the answer, or the failure, of the script's first listing
ListAnswered ==
    script.pc = "list_inference_profiles" /\ script'.pc # script.pc

\* the inference profiles named as the tenant's the script runs for
OfTenant == Named(ProfileNameOf(script.tenant_id))

\* C36: create_profile_if_needed calls create_inference_profile only if no
\* APPLICATION inference profile named '<tenant_id>-sonnet-4_0' exists; when
\* one exists at the listing, the call returns the ARN of a profile of that
\* name and goes no further.
C36_CreatesOnlyIfAbsent ==
    [][/\ CreateCalled => OfTenant = {}
       /\ (ListAnswered /\ OfTenant # {})
          => /\ script'.pc = "returned"
             /\ script'.result \in {s.inferenceProfileArn : s \in OfTenant}
             /\ UNCHANGED inference_profiles
      ]_vars

\* what holds: it is so when the listing answered; when the listing failed
\* the script goes on to get_caller_identity and to the creation whether or
\* not the profile exists
CreatesOnlyIfAbsentWhenListed ==
    [][/\ (CreateCalled /\ script.listed) => OfTenant = {}
       /\ (ListAnswered /\ script'.listed /\ OfTenant # {})
          => /\ script'.pc = "returned"
             /\ script'.result \in {s.inferenceProfileArn : s \in OfTenant}
             /\ UNCHANGED inference_profiles
       /\ (ListAnswered /\ ~script'.listed)
          => script'.pc = "get_caller_identity"
      ]_vars

\* the listing answered and the ARN of the existing profile was returned
ExistingProfileReturned ==
    /\ script.pc = "returned"
    /\ script.listed
    /\ script.result # NoArn
    /\ script.result \in {s.inferenceProfileArn : s \in OfTenant}
    /\ script.profile_arn = NoArn

\* the script created a second inference profile of the tenant's name
DuplicateProfileCreated ==
    /\ script.pc = "returned"
    /\ ~script.listed
    /\ script.result = script.profile_arn
    /\ Cardinality(OfTenant) = 2

(* Properties of the usage tracker *)
\* the sum of f[t] over the keys t of the dict f
RECURSIVE SumOver(_)
SumOver(f) ==
    IF DOMAIN f = {} THEN 0
    ELSE LET t == CHOOSE x \in DOMAIN f : TRUE
         IN  f[t] + SumOver([x \in DOMAIN f \ {t} |-> f[x]])

\* what get_all_usage_summary reports now
Summary == get_all_usage_summary(usage_data)

\* each total of the summary is the sum of that field over tenant_breakdown
TotalsAreBreakdownSums(s) ==
    LET b == s.tenant_breakdown
    IN  /\ s.total_requests = SumOver([t \in DOMAIN b |-> b[t].total_requests])
        /\ s.total_input_tokens
               = SumOver([t \in DOMAIN b |-> b[t].total_input_tokens])
        /\ s.total_output_tokens
               = SumOver([t \in DOMAIN b |-> b[t].total_output_tokens])
        /\ s.total_tokens = SumOver([t \in DOMAIN b |-> b[t].total_tokens])

\* every total of the summary is 0
AllZero(s) ==
    /\ s.total_requests = 0
    /\ s.total_input_tokens = 0
    /\ s.total_output_tokens = 0
    /\ s.total_tokens = 0

\* C37: after any sequence of extract_usage_from_response and
\* clear_usage_data, each total of get_all_usage_summary is the sum of that
\* field over its tenant_breakdown and total_tokens is total_input_tokens
\* plus total_output_tokens; directly after clear_usage_data all are 0.
C37_SummaryIsConsistent ==
    /\ TotalsAreBreakdownSums(Summary)
    /\ Summary.total_tokens
           = Summary.total_input_tokens + Summary.total_output_tokens
    /\ [][/\ TotalsAreBreakdownSums(Summary')
          /\ Summary'.total_tokens
                 = Summary'.total_input_tokens + Summary'.total_output_tokens
          /\ usage_data' = <<>> => AllZero(Summary')
         ]_vars

\* C37 witness: the tracker holds records of two tenants, one of them with
\* no tokens, and the totals of input and output tokens are not 0.
C37_Witness ==
    /\ Len(usage_data) = MaxRequests
    /\ Summary.unique_tenants = 2
    /\ \E i \in DOMAIN usage_data : usage_data[i].total_tokens = 0
    /\ Summary.total_input_tokens > Summary.total_output_tokens
    /\ Summary.total_output_tokens > 0

====
